---------------------------- MODULE Spec2Model ----------------------------
(***************************************************************************)
(* Byte-Size AI: the React client (src/src/App.jsx), the Express backend   *)
(* (src/unnamed/part_000, server/index.js) and its SQLite table            *)
(* (src/unnamed/part_001, server/db.js).                                   *)
(*                                                                         *)
(* The specifications share the definitions below:                         *)
(*   Spec        the client: projects, chats, turns and their              *)
(*               continuations                                             *)
(*   StoreSpec   the backend's chat-state endpoints over the chat_state    *)
(*               row                                                       *)
(*   RouteSpec   one turn from the client's endpoint choice to the         *)
(*               backend handler and its upstream call (TurnSpec: with a   *)
(*               token the backend may refuse)                             *)
(*   AiSpec      the turn routes under requests of any caller              *)
(*   InputSpec   the message box beside requests of any caller             *)
(*   ModeSpec    the mode buttons and the model selection                  *)
(*   CatalogSpec the listing routes over the provider's list, and the      *)
(*               client's model list                                       *)
(*   GateSpec    every route of the backend under requests of any caller   *)
(*   TitleSpec   chats and their titles under prompts of 40 and 41         *)
(*               characters                                                *)
(*   LiveSpec    the pending turn, every request of a turn settling        *)
(*   CountSpec   the date special case at the moments around Dec 25        *)
(*                                                                         *)
(* Text is a sequence of pieces.  What the user types, and every literal    *)
(* that trim, slice, toLowerCase, includes or the year pattern works on,   *)
(* is held one character per piece, so that these are computed as the code *)
(* computes them.  A literal of the source that is only stored, compared   *)
(* and shown (the welcome message, the error texts) is held as one piece.  *)
(* null and undefined are the strings Null and Undefined where the field   *)
(* holds a string, NullId where it holds an id, NullText and UndefinedText *)
(* where it holds a text, and JNull and JUndef inside JSON values.         *)
(***************************************************************************)
EXTENDS Integers, Sequences, FiniteSets, TLC

----------------------------------------------------------------------------
(* Bounds of the model                                                     *)

\* at most MaxOps user operations (clicks, submissions) in one behaviour;
\* the responses they wait for are not counted
MaxOps == 3

\* at most MaxModels entries in a list of the upstream provider
MaxModels == 3

----------------------------------------------------------------------------
(* Literal texts of the sources                                            *)

\* "New chat"
NewChatTitle ==
    <<"N", "e", "w", " ", "c", "h", "a", "t">>

\* "General"
GeneralName ==
    <<"G", "e", "n", "e", "r", "a", "l">>

UnauthorizedText == <<"Unauthorized. Please log in again.">>

VideoBackendErrText ==
    <<"Your backend returned an error while generating video. Check the server console for details.">>

BackendErrText ==
    <<"Your backend returned an error while talking to OpenRouter. Check the server console for details.">>

ModelLoadErrText == <<"Could not load models from OpenRouter.">>

ServerAiFailedText == <<"AI request failed.">>

NoImageText == <<"OpenRouter returned no image for this prompt.">>

ImageReplyText == <<"Here is your generated image.">>

ServerImageFailedText == <<"Image request failed.">>

InvalidTokenText == <<"Unauthorized: invalid token">>

\* "how many days"
HowManyDays ==
    <<"h", "o", "w", " ", "m", "a", "n", "y", " ", "d", "a", "y", "s">>

\* "christmas"
Christmas ==
    <<"c", "h", "r", "i", "s", "t", "m", "a", "s">>

\* "There are "
ThereAre ==
    <<"T", "h", "e", "r", "e", " ", "a", "r", "e", " ">>

\* " days until Christmas "
DaysUntil ==
    <<" ", "d", "a", "y", "s", " ", "u", "n", "t", "i", "l", " ", "C", "h",
      "r", "i", "s", "t", "m", "a", "s", " ">>

\* ". (Based on current date "
BasedOn ==
    <<".", " ", "(", "B", "a", "s", "e", "d", " ", "o", "n", " ", "c", "u",
      "r", "r", "e", "n", "t", " ", "d", "a", "t", "e", " ">>

\* the apostrophe of the source is U+2019
VideoReplyText == <<"Here's your generated video:">>

----------------------------------------------------------------------------
(* JavaScript values                                                       *)

Null == "null"
Undefined == "undefined"
NullId == << >>
NoMeta == << >>
\* a text field that holds undefined
UndefinedText == <<"undefined">>

Min(S) == CHOOSE x \in S : \A y \in S : x <= y
Max(S) == CHOOSE x \in S : \A y \in S : x >= y

\* a || b on texts: the empty string and undefined are falsy
TextOr(a, b) == IF a = << >> \/ a = UndefinedText THEN b ELSE a

\* a || null on strings
StrOrNull(a) == IF a = Undefined \/ a = "" \/ a = Null THEN Null ELSE a

\* a || null on ids
IdOrNull(a) == IF a = NullId THEN NullId ELSE a

IsWhitespace(c) == c \in {" ", "\n", "\t", "\r"}

\* String.prototype.trim
Trim(s) ==
    LET keep == {i \in 1..Len(s) : ~IsWhitespace(s[i])}
    IN  IF keep = {} THEN << >> ELSE SubSeq(s, Min(keep), Max(keep))

\* Array.prototype.map
MapSeq(s, F(_)) == [i \in 1..Len(s) |-> F(s[i])]

\* Array.prototype.find on a sequence of records; NoneFound when absent
NoneFound == [found |-> FALSE]
FindFirst(s, P(_)) ==
    LET hits == {i \in 1..Len(s) : P(s[i])}
    IN  IF hits = {} THEN NoneFound
        ELSE [found |-> TRUE, value |-> s[Min(hits)]]

----------------------------------------------------------------------------
(* JSON: values, JSON.stringify to a token sequence, JSON.parse back       *)

JNull == [t |-> "null"]
JUndef == [t |-> "undefined"]
JBool(b) == [t |-> "bool", v |-> b]
JNum(n) == [t |-> "num", v |-> n]
\* a string held as text
JStr(s) == [t |-> "str", v |-> s]
\* a string held as a TLA+ string (role, brand, mode, url)
JWord(w) == [t |-> "word", v |-> w]
\* a string made by createId
JId(i) == [t |-> "id", v |-> i]
JArr(s) == [t |-> "arr", v |-> s]
\* an object is its own properties in insertion order, each <<key, value>>
JObj(m) == [t |-> "obj", v |-> m]

Punct(c) == [t |-> "punct", v |-> c]
KeyToken(k) == [t |-> "key", v |-> k]
IsPunct(tok, c) == tok.t = "punct" /\ tok.v = c

\* obj[key], undefined when obj has no such own property or is no object
GetProp(obj, key) ==
    IF obj.t # "obj" THEN JUndef
    ELSE LET hits == {i \in 1..Len(obj.v) : obj.v[i][1] = key}
         IN  IF hits = {} THEN JUndef ELSE obj.v[Max(hits)][2]

\* !value
IsFalsy(val) ==
    \/ val.t \in {"null", "undefined"}
    \/ val.t = "bool" /\ ~val.v
    \/ val.t = "num" /\ val.v = 0
    \/ val.t = "str" /\ val.v = << >>
    \/ val.t = "word" /\ val.v = ""

RECURSIVE Stringify(_), StringifyElems(_), StringifyMembers(_)
\* JSON.stringify(val) for a val that is not undefined
Stringify(val) ==
    CASE val.t = "arr" ->
             <<Punct("[")>> \o StringifyElems(val.v) \o <<Punct("]")>>
      [] val.t = "obj" ->
             <<Punct("{")>>
             \o StringifyMembers(
                    SelectSeq(val.v, LAMBDA kv : kv[2].t # "undefined"))
             \o <<Punct("}")>>
      [] OTHER -> <<val>>

\* the elements of an array: undefined is written as null
StringifyElems(s) ==
    IF Len(s) = 0 THEN << >>
    ELSE (IF Head(s).t = "undefined" THEN <<JNull>> ELSE Stringify(Head(s)))
         \o (IF Len(s) = 1 THEN << >>
             ELSE <<Punct(",")>> \o StringifyElems(Tail(s)))

\* the properties of an object whose value is not undefined
StringifyMembers(m) ==
    IF Len(m) = 0 THEN << >>
    ELSE <<KeyToken(Head(m)[1]), Punct(":")>> \o Stringify(Head(m)[2])
         \o (IF Len(m) = 1 THEN << >>
             ELSE <<Punct(",")>> \o StringifyMembers(Tail(m)))

\* obj with key set to val: an existing property keeps its place
SetProp(m, key, val) ==
    IF \E i \in 1..Len(m) : m[i][1] = key
    THEN [i \in 1..Len(m) |-> IF m[i][1] = key THEN <<key, val>> ELSE m[i]]
    ELSE Append(m, <<key, val>>)

RECURSIVE ParseValue(_), ParseElems(_, _), ParseMembers(_, _)
\* JSON.parse of a token sequence written by Stringify:
\* [val |-> the value read, rest |-> the tokens after it]
ParseValue(ts) ==
    IF IsPunct(Head(ts), "[")
    THEN IF IsPunct(ts[2], "]")
         THEN [val |-> JArr(<< >>), rest |-> SubSeq(ts, 3, Len(ts))]
         ELSE ParseElems(Tail(ts), << >>)
    ELSE IF IsPunct(Head(ts), "{")
    THEN IF IsPunct(ts[2], "}")
         THEN [val |-> JObj(<< >>), rest |-> SubSeq(ts, 3, Len(ts))]
         ELSE ParseMembers(Tail(ts), << >>)
    ELSE [val |-> Head(ts), rest |-> Tail(ts)]

ParseElems(ts, acc) ==
    LET r == ParseValue(ts)
        acc2 == Append(acc, r.val)
    IN  IF IsPunct(Head(r.rest), ",")
        THEN ParseElems(Tail(r.rest), acc2)
        ELSE [val |-> JArr(acc2), rest |-> Tail(r.rest)]

ParseMembers(ts, acc) ==
    LET r == ParseValue(SubSeq(ts, 3, Len(ts)))
        acc2 == SetProp(acc, Head(ts).v, r.val)
    IN  IF IsPunct(Head(r.rest), ",")
        THEN ParseMembers(Tail(r.rest), acc2)
        ELSE [val |-> JObj(acc2), rest |-> Tail(r.rest)]

JSONparse(ts) == ParseValue(ts).val

----------------------------------------------------------------------------
(* Dates as the backend's JavaScript engine computes them                  *)

\* 1000 * 60 * 60 * 24
DayMs == 86400000
MinuteMs == 60000

\* a Date is its time value, held as whole days since the epoch and the
\* milliseconds into that day, so that no number leaves 32 bits; the
\* Invalid Date has ms = -1
InvalidDate == [day |-> 0, ms |-> -1]
IsValidDate(d) == d.ms >= 0

\* the day number of a civil date and back (proleptic Gregorian calendar)
DaysFromCivil(y, m, d) ==
    LET y1 == IF m <= 2 THEN y - 1 ELSE y
        era == y1 \div 400
        yoe == y1 - era * 400
        mp == IF m > 2 THEN m - 3 ELSE m + 9
        doy == (153 * mp + 2) \div 5 + d - 1
        doe == yoe * 365 + yoe \div 4 - yoe \div 100 + doy
    IN  era * 146097 + doe - 719468

CivilFromDays(z) ==
    LET z1 == z + 719468
        era == z1 \div 146097
        doe == z1 - era * 146097
        yoe == (doe - doe \div 1460 + doe \div 36524 - doe \div 146096)
                   \div 365
        doy == doe - (365 * yoe + yoe \div 4 - yoe \div 100)
        mp == (5 * doy + 2) \div 153
        d == doy - (153 * mp + 2) \div 5 + 1
        m == IF mp < 10 THEN mp + 3 ELSE mp - 9
    IN  [year |-> IF m <= 2 THEN yoe + era * 400 + 1 ELSE yoe + era * 400,
         month |-> m, day |-> d]

\* the date delta milliseconds after date (delta within a few days)
Shift(date, delta) ==
    [day |-> date.day + (date.ms + delta) \div DayMs,
     ms |-> (date.ms + delta) % DayMs]

\* a < b on valid dates
Before(a, b) == a.day < b.day \/ (a.day = b.day /\ a.ms < b.ms)

\* Math.ceil((a - b) / (1000 * 60 * 60 * 24)) on valid dates
CeilDaysBetween(a, b) ==
    (a.day - b.day) + (IF a.ms > b.ms THEN 1 ELSE 0)

\* Date.prototype.toISOString on a valid date: the fields of
\* YYYY-MM-DDTHH:mm:ss.sssZ
toISOString(date) ==
    LET c == CivilFromDays(date.day)
    IN  [year |-> c.year, month |-> c.month, day |-> c.day,
         hour |-> date.ms \div (60 * MinuteMs),
         minute |-> (date.ms \div MinuteMs) % 60,
         second |-> (date.ms \div 1000) % 60,
         milli |-> date.ms % 1000]

\* a string that holds an ISO date, kept as its fields
JIso(fields) == [t |-> "iso", v |-> fields]

\* new Date(value) for a truthy JSON value: an ISO string or a number of
\* milliseconds is read, any other text here is no date
DateOf(val) ==
    IF val.t = "iso"
    THEN [day |-> DaysFromCivil(val.v.year, val.v.month, val.v.day),
          ms |-> ((val.v.hour * 60 + val.v.minute) * 60 + val.v.second)
                     * 1000 + val.v.milli]
    ELSE IF val.t = "num"
    THEN [day |-> val.v \div DayMs, ms |-> val.v % DayMs]
    ELSE InvalidDate

\* new Date(year, 11, 25) in a zone that is zone minutes east of UTC
ChristmasOf(year, zone) ==
    Shift([day |-> DaysFromCivil(year, 12, 25), ms |-> 0],
          0 - zone * MinuteMs)

\* Date.prototype.getFullYear in that zone
getFullYear(date, zone) ==
    CivilFromDays(Shift(date, zone * MinuteMs).day).year

\* now.toLocaleString("en-ZA", ...) in that zone, as the fields it prints
toLocaleString(date, zone) ==
    LET local == Shift(date, zone * MinuteMs)
        c == CivilFromDays(local.day)
    IN  [weekday |-> (local.day + 4) % 7, year |-> c.year,
         month |-> c.month, day |-> c.day,
         hour |-> local.ms \div (60 * MinuteMs),
         minute |-> (local.ms \div MinuteMs) % 60]

----------------------------------------------------------------------------
(* Texts as the backend reads and writes them                              *)

UpperCase ==
    <<"A", "B", "C", "D", "E", "F", "G", "H", "I", "J", "K", "L", "M", "N",
      "O", "P", "Q", "R", "S", "T", "U", "V", "W", "X", "Y", "Z">>
LowerCase ==
    <<"a", "b", "c", "d", "e", "f", "g", "h", "i", "j", "k", "l", "m", "n",
      "o", "p", "q", "r", "s", "t", "u", "v", "w", "x", "y", "z">>
DigitChars == <<"0", "1", "2", "3", "4", "5", "6", "7", "8", "9">>

\* String.prototype.toLowerCase
toLowerCase(s) ==
    [i \in 1..Len(s) |->
        IF \E k \in 1..Len(UpperCase) : UpperCase[k] = s[i]
        THEN LowerCase[CHOOSE k \in 1..Len(UpperCase) : UpperCase[k] = s[i]]
        ELSE s[i]]

\* String.prototype.includes
includes(s, part) ==
    \E i \in 0..(Len(s) - Len(part)) : SubSeq(s, i + 1, i + Len(part)) = part

IsDigit(c) == \E k \in 1..Len(DigitChars) : DigitChars[k] = c
DigitValue(c) == (CHOOSE k \in 1..Len(DigitChars) : DigitChars[k] = c) - 1

\* lower.match(/20\d{2}/): the places where the pattern matches
YearMatches(s) ==
    {i \in 1..(Len(s) - 3) :
        /\ s[i] = "2"
        /\ s[i + 1] = "0"
        /\ IsDigit(s[i + 2])
        /\ IsDigit(s[i + 3])}

\* parseInt(yearMatch[0], 10) of the first match
MatchedYear(s) ==
    LET i == Min(YearMatches(s))
    IN  2000 + 10 * DigitValue(s[i + 2]) + DigitValue(s[i + 3])

RECURSIVE NumberOf(_)
\* the number a run of digits writes: Number("12"), and Number("") is 0
NumberOf(digits) ==
    IF digits = << >> THEN 0
    ELSE 10 * NumberOf(SubSeq(digits, 1, Len(digits) - 1))
         + DigitValue(digits[Len(digits)])

RECURSIVE Digits(_)
\* a natural number written in a template literal
Digits(n) ==
    IF n < 10 THEN <<DigitChars[n + 1]>>
    ELSE Digits(n \div 10) \o <<DigitChars[(n % 10) + 1]>>

\* a field of toISOString, padded with zeros to width
Padded(n, width) ==
    [i \in 1..(width - Len(Digits(n))) |-> "0"] \o Digits(n)

\* isoNow.slice(0, 10)
IsoDay(iso) ==
    Padded(iso.year, 4) \o <<"-">> \o Padded(iso.month, 2) \o <<"-">>
    \o Padded(iso.day, 2)

----------------------------------------------------------------------------
(* The client's data (src/src/App.jsx)                                     *)

MODES == <<"Chat / Brain", "Campaign Builder", "Image Prompts",
           "Video Prompts">>
BRANDS == <<"DSSA", "LVR", "AI">>
VIDEO_MODELS == <<"fal-ai/ovi", "fal-ai/wan-2.5">>

\* a message object; a property the object lacks holds Undefined/NoMeta
Message(role, text, meta, imageUrl, type, videoUrl) ==
    [role |-> role, text |-> text, meta |-> meta, imageUrl |-> imageUrl,
     type |-> type, videoUrl |-> videoUrl]

INITIAL_MESSAGES ==
    <<Message("system", <<"WELCOME TO Leonard van Rooyen's personal AI. CHOOSE A BRAND, PICK A MODE, AND TELL ME WHAT YOU WANT TO CREATE.">>, NoMeta, Undefined, Undefined,
              Undefined)>>

\* Date.now().toString(36) + "-" + Math.random().toString(36).slice(2, 8):
\* the string is determined by, and determines, the pair read
createId(t, r) == <<t, r>>

\* 40 and 37 of getChatTitleFromMessages
TitleMax == 40
TitleKept == 37

\* a variant of getChatTitleFromMessages that keeps 40 characters before the
\* ellipsis
getChatTitleKeeps40(msgs, fallback) ==
    LET firstUser == FindFirst(msgs, LAMBDA m : m.role = "user")
    IN  IF ~firstUser.found THEN fallback
        ELSE IF firstUser.value.text \in {<< >>, UndefinedText}
        THEN fallback
        ELSE LET trimmed == Trim(firstUser.value.text)
             IN  IF trimmed = << >> THEN fallback
                 ELSE IF Len(trimmed) > TitleMax
                 THEN SubSeq(trimmed, 1, TitleMax) \o <<".", ".", ".">>
                 ELSE trimmed

\* getChatTitleFromMessages(messages, fallback)
getChatTitleFromMessages(msgs, fallback) ==
    LET firstUser == FindFirst(msgs, LAMBDA m : m.role = "user")
    IN  IF ~firstUser.found THEN fallback
        ELSE IF firstUser.value.text \in {<< >>, UndefinedText}
        THEN fallback
        ELSE LET trimmed == Trim(firstUser.value.text)
             IN  IF trimmed = << >> THEN fallback
                 ELSE IF Len(trimmed) > TitleMax
                 THEN SubSeq(trimmed, 1, TitleKept) \o <<".", ".", ".">>
                 ELSE trimmed

\* the updater of setMessagesAndPersist, for the handler's activeChatId
PersistInto(prevChats, closureChatId, newMessages) ==
    MapSeq(prevChats,
           LAMBDA chat :
               IF chat.id = closureChatId
               THEN [chat EXCEPT
                        !.messages = newMessages,
                        !.title = getChatTitleFromMessages(newMessages,
                                                           chat.title)]
               ELSE chat)

\* the chat object of handleNewChat and of loadChatState's default
NewChat(id, projectId, t) ==
    [id |-> id, projectId |-> projectId, title |-> NewChatTitle,
     messages |-> INITIAL_MESSAGES, createdAt |-> t]

\* the models kept by the mode: isImageMode, isVideoMode, otherwise all
FilteredModels(mode, mods) ==
    SelectSeq(mods,
              LAMBDA m :
                  IF mode = "Image Prompts" THEN m.isImageCapable
                  ELSE IF mode = "Video Prompts" THEN m.isVideoCapable
                  ELSE TRUE)

\* a variant of ModeEffect that leaves the selection as it is
ModeEffectKeeps(mode, mods, selected) == selected

\* the effect on [activeMode, models, selectedModel]
ModeEffect(mode, mods, selected) ==
    IF Len(mods) = 0 THEN selected
    ELSE LET compat == FilteredModels(mode, mods)
         IN  IF Len(compat) = 0 THEN selected
             ELSE IF \E i \in 1..Len(compat) : compat[i].id = selected
             THEN selected
             ELSE compat[1].id

\* a variant of SendEndpoint that knows the text route only
SendEndpointText(mode, mods) == "/api/ai"

\* the endpoint handleSend posts to
SendEndpoint(mode, mods) ==
    IF mode = "Video Prompts" THEN "/api/video"
    ELSE IF mode = "Image Prompts" /\ Len(FilteredModels(mode, mods)) > 0
    THEN "/api/image"
    ELSE "/api/ai"

----------------------------------------------------------------------------
(* Objects as JSON values and back                                         *)

WordToJS(w) ==
    IF w = Undefined THEN JUndef ELSE IF w = Null THEN JNull ELSE JWord(w)
WordOfJS(val) ==
    IF val.t = "word" THEN val.v ELSE IF val.t = "null" THEN Null
    ELSE Undefined
TextToJS(s) == IF s = UndefinedText THEN JUndef ELSE JStr(s)
TextOfJS(val) == IF val.t = "str" THEN val.v ELSE UndefinedText
IdToJS(i) == IF i = NullId THEN JNull ELSE JId(i)
IdOfJS(val) == IF val.t = "id" THEN val.v ELSE NullId
NumOfJS(val) == IF val.t = "num" THEN val.v ELSE 0

MessageToJS(m) ==
    JObj(<<<<"role", JWord(m.role)>>,
           <<"text", TextToJS(m.text)>>,
           <<"meta", IF m.meta = NoMeta THEN JUndef
                     ELSE JObj(<<<<"brand", JWord(m.meta[1])>>,
                                 <<"mode", JWord(m.meta[2])>>>>)>>,
           <<"imageUrl", WordToJS(m.imageUrl)>>,
           <<"type", WordToJS(m.type)>>,
           <<"videoUrl", WordToJS(m.videoUrl)>>>>)

MessageOfJS(val) ==
    Message(WordOfJS(GetProp(val, "role")),
            TextOfJS(GetProp(val, "text")),
            LET meta == GetProp(val, "meta")
            IN  IF meta.t # "obj" THEN NoMeta
                ELSE <<WordOfJS(GetProp(meta, "brand")),
                       WordOfJS(GetProp(meta, "mode"))>>,
            WordOfJS(GetProp(val, "imageUrl")),
            WordOfJS(GetProp(val, "type")),
            WordOfJS(GetProp(val, "videoUrl")))

ArrayOfJS(val, F(_)) == IF val.t = "arr" THEN MapSeq(val.v, F) ELSE << >>

ProjectToJS(p) ==
    JObj(<<<<"id", IdToJS(p.id)>>, <<"name", TextToJS(p.name)>>,
           <<"createdAt", JNum(p.createdAt)>>>>)

ProjectOfJS(val) ==
    [id |-> IdOfJS(GetProp(val, "id")),
     name |-> TextOfJS(GetProp(val, "name")),
     createdAt |-> NumOfJS(GetProp(val, "createdAt"))]

ChatToJS(c) ==
    JObj(<<<<"id", IdToJS(c.id)>>, <<"projectId", IdToJS(c.projectId)>>,
           <<"title", TextToJS(c.title)>>,
           <<"messages", JArr(MapSeq(c.messages, MessageToJS))>>,
           <<"createdAt", JNum(c.createdAt)>>>>)

ChatOfJS(val) ==
    [id |-> IdOfJS(GetProp(val, "id")),
     projectId |-> IdOfJS(GetProp(val, "projectId")),
     title |-> TextOfJS(GetProp(val, "title")),
     messages |-> ArrayOfJS(GetProp(val, "messages"), MessageOfJS),
     createdAt |-> NumOfJS(GetProp(val, "createdAt"))]

\* the body { projects, chats } of a snapshot
SnapshotToJS(ps, cs) ==
    JObj(<<<<"projects", JArr(MapSeq(ps, ProjectToJS))>>,
           <<"chats", JArr(MapSeq(cs, ChatToJS))>>>>)

----------------------------------------------------------------------------
(* The backend's session gate and chat-state store (server/index.js)       *)

\* the tokens jwt.verify(token, JWT_SECRET) accepts
ValidTokens == {"jwt"}

NoHeader == [scheme |-> "", token |-> ""]
Bearer(tok) == [scheme |-> "Bearer ", token |-> tok]

\* a variant of requireAuth that lets every bearer token pass
requireAuthAnyBearer(authorization) ==
    IF authorization.scheme # "Bearer " \/ authorization.token = ""
    THEN 401
    ELSE 0

\* requireAuth: 0 when next() is called, else the status answered
requireAuth(authorization) ==
    IF authorization.scheme # "Bearer " \/ authorization.token = ""
    THEN 401
    ELSE IF authorization.token \in ValidTokens THEN 0
    ELSE 401

\* the body requireAuth answers with
requireAuthError(authorization) ==
    IF authorization.scheme # "Bearer " \/ authorization.token = ""
    THEN JObj(<<<<"error", JStr(<<"Unauthorized: missing token">>)>>>>)
    ELSE JObj(<<<<"error", JStr(InvalidTokenText)>>>>)

\* a variant of SelectRow that looks for the row under the table's name
SelectRowByTableName(table, id) == {row \in table : row.id = "chat_state"}

\* SELECT data FROM chat_state WHERE id = ?
SelectRow(table, id) == {row \in table : row.id = id}

\* a variant of UpsertRow that keeps the row it finds (ON CONFLICT DO NOTHING)
UpsertRowKeepsOld(table, id, data) ==
    IF \E row \in table : row.id = id THEN table
    ELSE table \cup {[id |-> id, data |-> data]}

\* INSERT ... ON CONFLICT(id) DO UPDATE SET data = excluded.data
UpsertRow(table, id, data) ==
    {row \in table : row.id # id} \cup {[id |-> id, data |-> data]}

EmptySnapshot == JObj(<<<<"projects", JArr(<< >>)>>, <<"chats", JArr(<< >>)>>>>)

\* GET /api/chat-state behind requireAuth: [status, body]
GetChatState(authorization, table) ==
    IF requireAuth(authorization) # 0
    THEN [status |-> requireAuth(authorization),
          body |-> requireAuthError(authorization)]
    ELSE LET rows == SelectRow(table, "default")
         IN  IF rows = {} THEN [status |-> 200, body |-> EmptySnapshot]
             ELSE [status |-> 200,
                   body |-> JSONparse((CHOOSE row \in rows : TRUE).data)]

\* a variant of PostChatState that asks for projects only
PostChatStateChecksProjects(authorization, reqBody, table) ==
    IF requireAuth(authorization) # 0
    THEN [status |-> requireAuth(authorization),
          body |-> requireAuthError(authorization), table |-> table]
    ELSE LET ps == GetProp(reqBody, "projects")
             cs == GetProp(reqBody, "chats")
         IN  IF IsFalsy(ps)
             THEN [status |-> 400,
                   body |-> JObj(<<<<"error", JStr(<<"Missing 'projects' or 'chats' in body.">>)>>>>),
                   table |-> table]
             ELSE [status |-> 200,
                   body |-> JObj(<<<<"success", JBool(TRUE)>>>>),
                   table |-> UpsertRow(table, "default",
                                       Stringify(JObj(<<<<"projects", ps>>,
                                                        <<"chats", cs>>>>)))]

\* POST /api/chat-state behind requireAuth: [status, body, table]
PostChatState(authorization, reqBody, table) ==
    IF requireAuth(authorization) # 0
    THEN [status |-> requireAuth(authorization),
          body |-> requireAuthError(authorization), table |-> table]
    ELSE LET ps == GetProp(reqBody, "projects")
             cs == GetProp(reqBody, "chats")
         IN  IF IsFalsy(ps) \/ IsFalsy(cs)
             THEN [status |-> 400,
                   body |-> JObj(<<<<"error", JStr(<<"Missing 'projects' or 'chats' in body.">>)>>>>),
                   table |-> table]
             ELSE [status |-> 200,
                   body |-> JObj(<<<<"success", JBool(TRUE)>>>>),
                   table |-> UpsertRow(table, "default",
                                       Stringify(JObj(<<<<"projects", ps>>,
                                                        <<"chats", cs>>>>)))]

\* res.json(body) on the wire and response.json() in the client
OverHttp(body) == JSONparse(Stringify(body))

\* no request received yet, no response given yet, nothing saved yet
NoRequest == [method |-> "", url |-> "", authorization |-> NoHeader,
              body |-> JUndef]
NoResponse == [status |-> 0, body |-> JUndef]
NoSave == JUndef


\* process.env.ADMIN_PASSWORD
ADMIN_PASSWORD == JStr(<<"s3cret">>)

\* jwt.sign(payload, JWT_SECRET, { expiresIn: "7d" })
SignedToken == "jwt"

\* POST /api/login: [status, body]
ApiLogin(reqBody) ==
    LET password == GetProp(reqBody, "password")
    IN  IF IsFalsy(password)
        THEN [status |-> 400,
              body |-> JObj(<<<<"error", JStr(<<"Password is required.">>)>>>>)]
        ELSE IF password # ADMIN_PASSWORD
        THEN [status |-> 401,
              body |-> JObj(<<<<"error", JStr(<<"Invalid password.">>)>>>>)]
        ELSE [status |-> 200,
              body |-> JObj(<<<<"token", JWord(SignedToken)>>>>)]
----------------------------------------------------------------------------
(* State                                                                   *)

VARIABLES
    \* the client's React state (App.jsx 46-76)
    token, activeBrand, activeMode, messages, isSending, models,
    selectedModel, isLoadingModels, modelError, selectedVideoModel,
    projects, chats, activeProjectId, activeChatId, expandedProjectId,
    \* the browser's localStorage (authToken)
    localStore,
    \* the handlers suspended at an await, each with what it closed over
    \* (activeChatId, newMessages), the endpoint it posted to (url) and the id
    \* of the chat its own handleNewChat call created (newChatId)
    inflight,
    \* fetchModels and loadChatState: "idle", "pending" or "done"
    modelsFetch, chatStateFetch,
    \* the number of user operations so far
    ops,
    \* what createId returned last (NoId before its first call)
    lastId,
    \* the rows of the backend's table chat_state
    table,
    \* the request the backend received last and the response it gave
    \* (NoResponse while its handler awaits the upstream provider)
    req, res,
    \* the calls the backend made to the upstream provider for req
    upstream,
    \* the snapshot the backend accepted last (NoSave before the first save)
    saved,
    \* the backend's time timeZone, in minutes east of UTC
    timeZone,
    \* what the upstream provider answers to a listing of its models
    listing

selVars == <<activeBrand, activeMode, models, selectedModel, isLoadingModels,
             modelError, selectedVideoModel>>
convVars == <<projects, chats, activeProjectId, activeChatId,
              expandedProjectId, messages>>
serverVars == <<table, req, res, upstream, saved, timeZone, listing>>
clientVars == <<token, selVars, convVars, isSending, localStore, inflight,
                modelsFetch, chatStateFetch, ops, lastId>>

\* no id of this session: the ids of earlier sessions carry time 0
NoId == <<0, 0>>

\* what Date.now() and Math.random() read at a call of createId that follows
\* the call that returned last: both as they read then, or a later time
ReadingsAfter(last) ==
    IF last = NoId THEN {<<1, 1>>}
    ELSE {last, <<last[1] + 1, 1>>}

Readings == ReadingsAfter(lastId)

\* the token the session was opened with (localStorage authToken at mount)
SessionToken == "jwt"

\* null in a state that holds a text
NullText == <<"null">>

----------------------------------------------------------------------------
(* Inputs of the client                                                    *)

\* the date with the given UTC fields
DateAt(year, month, day, hour, minute) ==
    [day |-> DaysFromCivil(year, month, day),
     ms |-> (hour * 60 + minute) * MinuteMs]

\* what new Date() gives in the browser and in the backend
Clock == {DateAt(2026, 11, 2, 10, 0), DateAt(2026, 12, 24, 23, 0)}

\* what the user types into the message box
Inputs == {<<" ", "g", "o", " ">>, <<" ", " ">>}

\* what the user answers to window.prompt("Project name")
ProjectNames == {<<"P">>, <<" ">>}

\* model lists GET /api/models answers with
TextModel ==
    [id |-> "m-text", isFree |-> TRUE, prompt |-> 0, completion |-> 0,
     isImageCapable |-> FALSE, isVideoCapable |-> FALSE]
ImageModel ==
    [id |-> "m-image", isFree |-> FALSE, prompt |-> 2, completion |-> 3,
     isImageCapable |-> TRUE, isVideoCapable |-> FALSE]
ImageModel2 ==
    [id |-> "m-image2", isFree |-> FALSE, prompt |-> 4, completion |-> 4,
     isImageCapable |-> TRUE, isVideoCapable |-> FALSE]
VideoModel ==
    [id |-> "m-video", isFree |-> FALSE, prompt |-> 5, completion |-> 5,
     isImageCapable |-> FALSE, isVideoCapable |-> TRUE]
Catalogs ==
    {<< >>, <<TextModel>>, <<TextModel, ImageModel, ImageModel2>>,
     <<TextModel, ImageModel, ImageModel2, VideoModel>>}

\* a settled request: the fetch or response.json() threw (failed, with the
\* error's message), or a response with a status and a parsed body
Failure(msg) ==
    [failed |-> TRUE, errMessage |-> msg, status |-> 0, data |-> JNull]
Response(status, data) ==
    [failed |-> FALSE, errMessage |-> << >>, status |-> status,
     data |-> data]
ResponseOk(outcome) == outcome.status >= 200 /\ outcome.status <= 299

\* the message of the browser's TypeError for a fetch that failed
FailedToFetchText == <<"Failed to fetch">>
\* a completion text of the upstream model
ModelReplyText == <<"o", "k">>

\* the outcomes a turn posted to url can settle with
TurnOutcomes(url) ==
    {Failure(FailedToFetchText),
     Response(401, JObj(<<<<"error", JStr(InvalidTokenText)>>>>))}
    \cup
    (CASE url = "/api/ai" ->
              {Response(200, JObj(<<<<"reply", JStr(ModelReplyText)>>>>)),
               Response(500,
                        JObj(<<<<"error", JStr(ServerAiFailedText)>>>>))}
       [] url = "/api/image" ->
              {Response(200, JObj(<<<<"reply", JStr(ImageReplyText)>>,
                                    <<"imageUrl", JWord("https://img")>>>>)),
               Response(500, JObj(<<<<"error", JStr(NoImageText)>>>>))}
       [] OTHER ->
              {Response(200, JObj(<<<<"videoUrl",
                                      JWord("https://video")>>>>)),
               Response(200, JObj(<< >>))})

----------------------------------------------------------------------------
(* POST /api/ai and POST /api/image (server/index.js)                      *)

\* arr?.[0]
FirstOf(val) ==
    IF val.t = "arr" /\ Len(val.v) > 0 THEN val.v[1] ELSE JUndef

\* a variant of MissingPrompt that tests !prompt only
MissingPromptFalsy(prompt) == IsFalsy(prompt)

\* !prompt || !prompt.trim() on a prompt that is a string or is missing
MissingPrompt(prompt) ==
    IsFalsy(prompt) \/ (prompt.t = "str" /\ Trim(prompt.v) = << >>)

\* a variant of TargetYear that stays in the year of now
TargetYearOfNow(lower, now, zone) ==
    IF YearMatches(lower) # {} THEN MatchedYear(lower)
    ELSE getFullYear(now, zone)

\* the year the override counts to
TargetYear(lower, now, zone) ==
    IF YearMatches(lower) # {} THEN MatchedYear(lower)
    ELSE IF Before(ChristmasOf(getFullYear(now, zone), zone), now)
    THEN getFullYear(now, zone) + 1
    ELSE getFullYear(now, zone)

\* a variant of DaysUntilChristmas that rounds down (Math.floor)
DaysUntilChristmasFloor(lower, now, zone) ==
    LET target == ChristmasOf(TargetYear(lower, now, zone), zone)
    IN  Max({0, (target.day - now.day)
                - (IF target.ms < now.ms THEN 1 ELSE 0)})

\* Math.max(0, Math.ceil(diffMs / (1000 * 60 * 60 * 24)))
DaysUntilChristmas(lower, now, zone) ==
    Max({0, CeilDaysBetween(ChristmasOf(TargetYear(lower, now, zone), zone),
                            now)})

\* the reply of the Christmas override
ChristmasReply(lower, now, zone) ==
    ThereAre \o Digits(DaysUntilChristmas(lower, now, zone)) \o DaysUntil
    \o Digits(TargetYear(lower, now, zone)) \o BasedOn
    \o IsoDay(toISOString(now)) \o <<")">>

\* lower.includes("how many days") && lower.includes("christmas")
IsChristmasQuestion(lower) ==
    includes(lower, HowManyDays) /\ includes(lower, Christmas)

DefaultTextModel == "openai/gpt-4o-mini"
DefaultImageModel == "google/gemini-2.5-flash-image-preview"

\* what a handler does with a request: it answers at once (await FALSE), or
\* it posts call to the upstream provider and awaits the outcome
Answer(status, body) ==
    [await |-> FALSE, status |-> status, body |-> body, call |-> JUndef]
Await(call) ==
    [await |-> TRUE, status |-> 0, body |-> JUndef, call |-> call]

\* the error answer of a handler's catch block
Caught(text) == Answer(500, JObj(<<<<"error", JStr(text)>>>>))

\* a variant of NowOf that reads the backend's own clock whatever was sent
NowOfWallClock(clientDate, clock) == clock

\* clientDate ? new Date(clientDate) : new Date(), clock being the backend's
\* own new Date()
NowOf(clientDate, clock) ==
    IF IsFalsy(clientDate) THEN clock ELSE DateOf(clientDate)

\* /api/ai up to its await; clock is the backend's own new Date()
ApiAi(body, clock, zone) ==
    LET prompt == GetProp(body, "prompt")
        clientDate == GetProp(body, "clientDate")
        modelId == GetProp(body, "modelId")
        now == NowOf(clientDate, clock)
    IN  IF prompt.t # "str" /\ ~IsFalsy(prompt)
        THEN Caught(ServerAiFailedText)
        ELSE IF MissingPrompt(prompt)
        THEN Answer(400, JObj(<<<<"error", JStr(<<"Missing prompt.">>)>>>>))
        ELSE IF ~IsValidDate(now)
        THEN Caught(ServerAiFailedText)
        ELSE IF IsChristmasQuestion(toLowerCase(prompt.v))
        THEN Answer(200,
                    JObj(<<<<"reply",
                             JStr(ChristmasReply(toLowerCase(prompt.v), now,
                                                 zone))>>>>))
        ELSE Await(JObj(<<
                 <<"model", IF IsFalsy(modelId) THEN JWord(DefaultTextModel)
                            ELSE modelId>>,
                 <<"messages",
                   JArr(<<JObj(<<<<"role", JWord("system")>>,
                                 <<"content",
                                   JObj(<<<<"brand", GetProp(body, "brand")>>,
                                          <<"mode", GetProp(body, "mode")>>,
                                          <<"humanDate",
                                            JIso(toLocaleString(now, zone))>>,
                                          <<"isoNow",
                                            JIso(toISOString(now))>>>>)>>>>),
                          JObj(<<<<"role", JWord("user")>>,
                                 <<"content", prompt>>>>)>>)>>>>))

\* /api/ai after its await
ApiAiSettle(outcome) ==
    IF outcome.failed \/ ~ResponseOk(outcome)
    THEN Caught(ServerAiFailedText)
    ELSE LET content ==
                 GetProp(GetProp(FirstOf(GetProp(outcome.data, "choices")),
                                 "message"), "content")
         IN  Answer(200,
                    JObj(<<<<"reply", IF IsFalsy(content)
                                      THEN JStr(<<"No response received from OpenRouter.">>)
                                      ELSE content>>>>))

\* /api/image up to its await; envModel is process.env.DEFAULT_IMAGE_MODEL
ApiImage(body, envModel) ==
    LET prompt == GetProp(body, "prompt")
        model == GetProp(body, "model")
    IN  IF prompt.t # "str" /\ ~IsFalsy(prompt)
        THEN Caught(ServerImageFailedText)
        ELSE IF MissingPrompt(prompt)
        THEN Answer(400, JObj(<<<<"error", JStr(<<"Missing prompt for image generation.">>)>>>>))
        ELSE Await(JObj(<<
                 <<"model",
                   IF ~IsFalsy(model) THEN model
                   ELSE IF ~IsFalsy(envModel) THEN envModel
                   ELSE JWord(DefaultImageModel)>>,
                 <<"messages",
                   JArr(<<JObj(<<<<"role", JWord("user")>>,
                                 <<"content", prompt>>>>)>>)>>,
                 <<"modalities", JArr(<<JWord("image"), JWord("text")>>)>>,
                 <<"stream", JBool(FALSE)>>>>))

\* a variant of ApiImageSettle that answers with the reply when the
\* provider sent no image
ApiImageSettleLenient(outcome) ==
    IF outcome.failed \/ ~ResponseOk(outcome)
    THEN Caught(ServerImageFailedText)
    ELSE LET message ==
                 GetProp(FirstOf(GetProp(outcome.data, "choices")),
                         "message")
             img == FirstOf(GetProp(message, "images"))
             url1 == GetProp(GetProp(img, "image_url"), "url")
         IN  Answer(200,
                    JObj(<<<<"reply",
                             IF IsFalsy(GetProp(message, "content"))
                             THEN JStr(ImageReplyText)
                             ELSE GetProp(message, "content")>>,
                           <<"imageUrl",
                             IF IsFalsy(url1) THEN JNull ELSE url1>>>>))

\* /api/image after its await
ApiImageSettle(outcome) ==
    IF outcome.failed \/ ~ResponseOk(outcome)
    THEN Caught(ServerImageFailedText)
    ELSE LET message ==
                 GetProp(FirstOf(GetProp(outcome.data, "choices")),
                         "message")
             img == FirstOf(GetProp(message, "images"))
             url1 == GetProp(GetProp(img, "image_url"), "url")
             url2 == GetProp(GetProp(img, "imageUrl"), "url")
             imageUrl == IF ~IsFalsy(url1) THEN url1
                         ELSE IF ~IsFalsy(url2) THEN url2 ELSE JNull
         IN  IF IsFalsy(imageUrl)
             THEN Answer(500, JObj(<<<<"error", JStr(NoImageText)>>>>))
             ELSE Answer(200,
                         JObj(<<<<"reply",
                                  IF IsFalsy(GetProp(message, "content"))
                                  THEN JStr(ImageReplyText)
                                  ELSE GetProp(message, "content")>>,
                                <<"imageUrl", imageUrl>>>>))

\* the answer of express to a path no route matches: 404 and a page that
\* is no JSON
NotFoundPage == [t |-> "html"]

\* the app's routes for a posted turn, up to the handler's await
TurnRoute(request, clock, zone, envModel) ==
    IF request.method = "POST" /\ request.url = "/api/ai"
    THEN IF requireAuth(request.authorization) # 0
         THEN Answer(requireAuth(request.authorization),
                     requireAuthError(request.authorization))
         ELSE ApiAi(request.body, clock, zone)
    ELSE IF request.method = "POST" /\ request.url = "/api/image"
    THEN IF requireAuth(request.authorization) # 0
         THEN Answer(requireAuth(request.authorization),
                     requireAuthError(request.authorization))
         ELSE ApiImage(request.body, envModel)
    ELSE Answer(404, NotFoundPage)

\* the handler of a request that awaits its upstream call, after the await
TurnSettle(request, outcome) ==
    IF request.url = "/api/image" THEN ApiImageSettle(outcome)
    ELSE ApiAiSettle(outcome)

----------------------------------------------------------------------------
(* GET /api/models and GET /api/video-models (server/index.js)             *)

CatalogFailedText == <<"Failed to load models from OpenRouter.">>
VideoCatalogFailedText == <<"Failed to load video models.">>

\* Number(value || 0) of a price that is missing, a number or a string of
\* digits; prices are counted in the provider's smallest unit
PriceOf(val) ==
    IF IsFalsy(val) THEN 0
    ELSE IF val.t = "num" THEN val.v
    ELSE NumberOf(val.v)

\* a variant of ModalitiesOf that reads m.architecture only
ModalitiesOfArchitecture(m, key) ==
    LET arch == IF IsFalsy(GetProp(m, "architecture")) THEN JObj(<< >>)
                ELSE GetProp(m, "architecture")
    IN  IF ~IsFalsy(GetProp(arch, key)) THEN GetProp(arch, key)
        ELSE JArr(<< >>)

\* arch[key] || m[key] || [], arch being m.architecture || {}
ModalitiesOf(m, key) ==
    LET arch == IF IsFalsy(GetProp(m, "architecture")) THEN JObj(<< >>)
                ELSE GetProp(m, "architecture")
    IN  IF ~IsFalsy(GetProp(arch, key)) THEN GetProp(arch, key)
        ELSE IF ~IsFalsy(GetProp(m, key)) THEN GetProp(m, key)
        ELSE JArr(<< >>)

\* Array.isArray(list) && list.includes(tag)
IncludesTag(list, tag) ==
    list.t = "arr" /\ \E i \in 1..Len(list.v) : list.v[i] = JWord(tag)

\* a variant of hasVideo that looks at the output modalities only
hasVideoInOutput(outputModalities, inputModalities) ==
    IncludesTag(outputModalities, "video")

hasImage(outputModalities) == IncludesTag(outputModalities, "image")

hasVideo(outputModalities, inputModalities) ==
    IncludesTag(outputModalities, "video")
    \/ IncludesTag(inputModalities, "video")

\* reading a property of m throws a TypeError
Unreadable(m) == m.t \in {"null", "undefined"}

\* the callback of models.map on a record it can read
Normalize(m) ==
    LET pricing == IF IsFalsy(GetProp(m, "pricing")) THEN JObj(<< >>)
                   ELSE GetProp(m, "pricing")
        promptPrice == PriceOf(GetProp(pricing, "prompt"))
        completionPrice == PriceOf(GetProp(pricing, "completion"))
        outputModalities == ModalitiesOf(m, "output_modalities")
        inputModalities == ModalitiesOf(m, "input_modalities")
    IN  JObj(<<<<"id", GetProp(m, "id")>>,
               <<"name", GetProp(m, "name")>>,
               <<"description", GetProp(m, "description")>>,
               <<"pricing", JObj(<<<<"prompt", JNum(promptPrice)>>,
                                   <<"completion",
                                     JNum(completionPrice)>>>>)>>,
               <<"isFree", JBool(promptPrice = 0 /\ completionPrice = 0)>>,
               <<"outputModalities", outputModalities>>,
               <<"inputModalities", inputModalities>>,
               <<"isImageCapable", JBool(hasImage(outputModalities))>>,
               <<"isVideoCapable",
                 JBool(hasVideo(outputModalities, inputModalities))>>>>)

IsFreeOf(d) == GetProp(d, "isFree").v
PromptPriceOf(d) == GetProp(GetProp(d, "pricing"), "prompt").v

\* a variant of CompareModels that looks at the prompt price only
CompareModelsByPrice(a, b) == PromptPriceOf(a) - PromptPriceOf(b)

\* the comparator of mapped.sort: free first, then by prompt price
CompareModels(a, b) ==
    IF IsFreeOf(a) /\ ~IsFreeOf(b) THEN 0 - 1
    ELSE IF ~IsFreeOf(a) /\ IsFreeOf(b) THEN 1
    ELSE PromptPriceOf(a) - PromptPriceOf(b)

\* d put into a sorted list behind every entry that does not come after it
InsertModel(sorted, d) ==
    LET after == {i \in 1..Len(sorted) : CompareModels(sorted[i], d) > 0}
        at == IF after = {} THEN Len(sorted) + 1 ELSE Min(after)
    IN  SubSeq(sorted, 1, at - 1) \o <<d>> \o SubSeq(sorted, at, Len(sorted))

RECURSIVE SortModels(_)
\* Array.prototype.sort with CompareModels: the sort is stable
SortModels(list) ==
    IF Len(list) = 0 THEN << >>
    ELSE InsertModel(SortModels(SubSeq(list, 1, Len(list) - 1)),
                     list[Len(list)])

\* mapped.filter((m) => m.isVideoCapable)
VideoCapable(list) ==
    SelectSeq(list, LAMBDA d : GetProp(d, "isVideoCapable").v)

\* the two listing routes up to the await
ApiModels == Await(JObj(<<<<"url", JWord("https://openrouter.ai/api/v1/models")>>>>))

\* a variant of ApiModelsSettle whose video listing is left in the order of
\* the provider
ApiModelsSettleUnranked(url, outcome) ==
    LET data == GetProp(outcome.data, "data")
        raw == IF IsFalsy(data) THEN << >> ELSE data.v
        mapped == [i \in 1..Len(raw) |-> Normalize(raw[i])]
    IN  Answer(200, JObj(<<<<"models",
                             JArr(IF url = "/api/video-models"
                                  THEN VideoCapable(mapped)
                                  ELSE SortModels(mapped))>>>>))

\* the two listing routes after the await: outcome is what axios.get made
\* of the provider's answer
ApiModelsSettle(url, outcome) ==
    LET failedText == IF url = "/api/video-models"
                      THEN VideoCatalogFailedText ELSE CatalogFailedText
        data == GetProp(outcome.data, "data")
    IN  IF outcome.failed \/ ~ResponseOk(outcome)
        THEN Caught(failedText)
        ELSE IF Unreadable(outcome.data)
        THEN Caught(failedText)
        ELSE IF ~IsFalsy(data) /\ data.t # "arr"
        THEN Caught(failedText)
        ELSE LET raw == IF IsFalsy(data) THEN << >> ELSE data.v
             IN  IF \E i \in 1..Len(raw) : Unreadable(raw[i])
                 THEN Caught(failedText)
                 ELSE LET mapped ==
                              [i \in 1..Len(raw) |-> Normalize(raw[i])]
                      IN  Answer(200,
                                 JObj(<<<<"models",
                                          JArr(IF url = "/api/video-models"
                                               THEN SortModels(
                                                      VideoCapable(mapped))
                                               ELSE SortModels(mapped))>>>>))

\* a model of data.models as the client holds it
ModelOfJS(d) ==
    [id |-> WordOfJS(GetProp(d, "id")),
     isFree |-> GetProp(d, "isFree").v,
     prompt |-> NumOfJS(GetProp(GetProp(d, "pricing"), "prompt")),
     completion |-> NumOfJS(GetProp(GetProp(d, "pricing"), "completion")),
     isImageCapable |-> GetProp(d, "isImageCapable").v,
     isVideoCapable |-> GetProp(d, "isVideoCapable").v]

\* data.models || [] of a response body
ModelsOfBody(body) ==
    IF GetProp(body, "models").t = "arr"
    THEN [i \in 1..Len(GetProp(body, "models").v) |->
              ModelOfJS(GetProp(body, "models").v[i])]
    ELSE << >>
----------------------------------------------------------------------------
(* What the upstream provider lists                                        *)

Modalities(input, output) ==
    JObj(<<<<"input_modalities", JArr(input)>>,
           <<"output_modalities", JArr(output)>>>>)

Pricing(prompt, completion) ==
    JObj(<<<<"prompt", JStr(prompt)>>, <<"completion", JStr(completion)>>>>)

\* a free text model
RawText ==
    JObj(<<<<"id", JWord("m-text")>>,
           <<"pricing", Pricing(<<"0">>, <<"0">>)>>,
           <<"architecture",
             Modalities(<<JWord("text")>>, <<JWord("text")>>)>>>>)
\* a paid model that puts out images
RawImage ==
    JObj(<<<<"id", JWord("m-image")>>,
           <<"pricing", Pricing(<<"2">>, <<"3">>)>>,
           <<"architecture",
             Modalities(<<JWord("text"), JWord("image")>>,
                        <<JWord("image"), JWord("text")>>)>>>>)
\* a paid model of the same prompt price that takes video in
RawVideoIn ==
    JObj(<<<<"id", JWord("m-video-in")>>,
           <<"pricing", Pricing(<<"2">>, <<"1">>)>>,
           <<"architecture",
             Modalities(<<JWord("text"), JWord("video")>>,
                        <<JWord("text")>>)>>>>)
\* a cheaper paid model without architecture: its modalities are top-level
RawVideoOut ==
    JObj(<<<<"id", JWord("m-video")>>,
           <<"pricing", JObj(<<<<"prompt", JNum(1)>>,
                               <<"completion", JNum(5)>>>>)>>,
           <<"output_modalities", JArr(<<JWord("video")>>)>>>>)
\* a record with an id and nothing else
RawBare == JObj(<<<<"id", JWord("m-bare")>>>>)
\* a record without a prompt price: paid by its completion price
RawHalf ==
    JObj(<<<<"id", JWord("m-half")>>,
           <<"pricing", JObj(<<<<"completion", JStr(<<"3">>)>>>>)>>,
           <<"architecture", JObj(<< >>)>>>>)
\* pricing and architecture are null, the modalities top-level
RawNulls ==
    JObj(<<<<"id", JWord("m-nulls")>>,
           <<"pricing", JNull>>,
           <<"architecture", JNull>>,
           <<"input_modalities", JArr(<<JWord("video")>>)>>,
           <<"output_modalities", JArr(<<JWord("image")>>)>>>>)
\* architecture holds an empty list beside a top-level one
RawEmptyList ==
    JObj(<<<<"id", JWord("m-empty")>>,
           <<"pricing", Pricing(<<"1">>, <<"0">>)>>,
           <<"architecture", Modalities(<< >>, << >>)>>,
           <<"output_modalities", JArr(<<JWord("image")>>)>>>>)

\* the entries a list of the provider is made of: the records above and an
\* entry that is null
RawEntries ==
    {RawText, RawImage, RawVideoIn, RawVideoOut, RawBare, RawHalf, RawNulls,
     RawEmptyList, JNull}

\* the lists of at most MaxModels entries
RawCatalogs == UNION {[1..n -> RawEntries] : n \in 0..MaxModels}

\* the provider's answers to GET /api/v1/models
Listings ==
    {Failure(<<"timeout of 60000ms exceeded">>),
     Response(429, JObj(<< >>)),
     Response(200, JObj(<< >>)),
     Response(200, JObj(<<<<"data", JNull>>>>))}
    \cup {Response(200, JObj(<<<<"data", JArr(raw)>>>>)) :
              raw \in RawCatalogs}

\* the list behind the model list the session has fetched
ServedListing ==
    Response(200, JObj(<<<<"data", JArr(<<RawText, RawImage>>)>>>>))
----------------------------------------------------------------------------
(* The client's handlers                                                   *)

\* the save effect on [projects, chats] runs after every render that changed
\* them, so the two localStorage items are always these functions of the
\* state; only authToken is kept as a variable
byteSizeProjects == Stringify(JArr(MapSeq(projects, ProjectToJS)))
byteSizeChats == Stringify(JArr(MapSeq(chats, ChatToJS)))

\* the main screen is rendered only with a token
LoggedIn == token # Null

\* one more user operation
UserOp == ops < MaxOps /\ ops' = ops + 1

\* a chat the sidebar shows: unfiled, or in the expanded project
Visible(chat) ==
    \/ chat.projectId = NullId
    \/ \E i \in 1..Len(projects) :
           projects[i].id = chat.projectId
           /\ expandedProjectId = projects[i].id

\* a variant of disableSend that does not look at isSending
disableSendWhileIdle(input) ==
    \/ Trim(input) = << >>
    \/ /\ activeMode # "Video Prompts"
       /\ \/ isLoadingModels
          \/ selectedModel = Null
          \/ Len(FilteredModels(activeMode, models)) = 0

\* disableSend, for the text in the message box
disableSend(input) ==
    \/ isSending
    \/ Trim(input) = << >>
    \/ /\ activeMode # "Video Prompts"
       /\ \/ isLoadingModels
          \/ selectedModel = Null
          \/ Len(FilteredModels(activeMode, models)) = 0

handleCreateProject(name, t, r) ==
    /\ LoggedIn
    /\ UserOp
    /\ Trim(name) # << >>
    /\ LET project == [id |-> createId(t, r), name |-> Trim(name),
                       createdAt |-> t]
       IN  /\ projects' = Append(projects, project)
           /\ activeProjectId' = project.id
           /\ expandedProjectId' = project.id
    /\ UNCHANGED <<token, selVars, chats, activeChatId, messages, isSending,
                   inflight, modelsFetch, chatStateFetch>>
    /\ UNCHANGED localStore
    /\ lastId' = createId(t, r)

\* a variant of RemainingChats that keeps every chat
RemainingChatsAll(prevChats, projectId) == prevChats

\* a variant of RemainingChats that compares the chat's own id
RemainingChatsByChatId(prevChats, projectId) ==
    SelectSeq(prevChats, LAMBDA c : c.id # projectId)

\* prevChats.filter((c) => c.projectId !== projectId)
RemainingChats(prevChats, projectId) ==
    SelectSeq(prevChats, LAMBDA c : c.projectId # projectId)

\* window.confirm answered yes
handleDeleteProject(projectId) ==
    /\ LoggedIn
    /\ UserOp
    /\ \E i \in 1..Len(projects) : projects[i].id = projectId
    /\ LET remaining == RemainingChats(chats, projectId)
           activeChat == FindFirst(chats, LAMBDA c : c.id = activeChatId)
           switch == activeChat.found
                     /\ activeChat.value.projectId = projectId
           hasFallback == Len(remaining) > 0
       IN  /\ projects' = SelectSeq(projects, LAMBDA p : p.id # projectId)
           /\ chats' = remaining
           /\ activeChatId' =
                  IF ~switch THEN activeChatId
                  ELSE IF hasFallback THEN remaining[1].id ELSE NullId
           /\ activeProjectId' =
                  IF activeProjectId = projectId THEN NullId
                  ELSE IF ~switch THEN activeProjectId
                  ELSE IF hasFallback THEN IdOrNull(remaining[1].projectId)
                  ELSE NullId
           /\ expandedProjectId' =
                  IF activeProjectId = projectId /\ ~hasFallback THEN NullId
                  ELSE IF ~switch THEN expandedProjectId
                  ELSE IF hasFallback THEN IdOrNull(remaining[1].projectId)
                  ELSE NullId
           /\ messages' =
                  IF ~switch THEN messages
                  ELSE IF hasFallback THEN remaining[1].messages
                  ELSE INITIAL_MESSAGES
    /\ UNCHANGED <<token, selVars, isSending, inflight, modelsFetch,
                   chatStateFetch>>
    /\ UNCHANGED <<localStore, lastId>>

\* projectIdOverride is undefined (NullId) or the expanded project's id
handleNewChat(projectIdOverride, t, r) ==
    /\ LoggedIn
    /\ UserOp
    /\ \/ projectIdOverride = NullId
       \/ \E i \in 1..Len(projects) :
              projects[i].id = projectIdOverride
              /\ expandedProjectId = projectIdOverride
    /\ LET chat == NewChat(createId(t, r), projectIdOverride, t)
       IN  /\ chats' = <<chat>> \o chats
           /\ activeChatId' = chat.id
           /\ activeProjectId' = chat.projectId
           /\ expandedProjectId' = IdOrNull(chat.projectId)
           /\ messages' = INITIAL_MESSAGES
    /\ UNCHANGED <<token, selVars, projects, isSending, inflight,
                   modelsFetch, chatStateFetch>>
    /\ UNCHANGED localStore
    /\ lastId' = createId(t, r)

handleSelectChat(chatId) ==
    /\ LoggedIn
    /\ UserOp
    /\ \E i \in 1..Len(chats) : chats[i].id = chatId /\ Visible(chats[i])
    /\ LET chat == FindFirst(chats, LAMBDA c : c.id = chatId).value
       IN  /\ activeChatId' = chatId
           /\ activeProjectId' = IdOrNull(chat.projectId)
           /\ expandedProjectId' = IdOrNull(chat.projectId)
           /\ messages' = chat.messages
    /\ UNCHANGED <<token, selVars, projects, chats, isSending, localStore, lastId,
                   inflight, modelsFetch, chatStateFetch>>

\* a variant of handleDeleteChat that removes the chat and leaves the active
\* chat as it is
handleDeleteChatKeepsActive(chatId) ==
    /\ LoggedIn
    /\ UserOp
    /\ \E i \in 1..Len(chats) : chats[i].id = chatId /\ Visible(chats[i])
    /\ chats' = SelectSeq(chats, LAMBDA c : c.id # chatId)
    /\ UNCHANGED <<token, selVars, projects, activeChatId, activeProjectId,
                   expandedProjectId, messages, isSending, inflight,
                   modelsFetch, chatStateFetch>>
    /\ UNCHANGED <<localStore, lastId>>

\* window.confirm answered yes
handleDeleteChat(chatId) ==
    /\ LoggedIn
    /\ UserOp
    /\ \E i \in 1..Len(chats) : chats[i].id = chatId /\ Visible(chats[i])
    /\ LET remaining == SelectSeq(chats, LAMBDA c : c.id # chatId)
           sameProjectChats ==
               SelectSeq(remaining, LAMBDA c : c.projectId = activeProjectId)
           isActive == chatId = activeChatId
           switchTo == IF Len(sameProjectChats) > 0 THEN sameProjectChats[1]
                       ELSE remaining[1]
       IN  /\ chats' = remaining
           /\ activeChatId' =
                  IF ~isActive THEN activeChatId
                  ELSE IF Len(remaining) > 0 THEN switchTo.id ELSE NullId
           /\ activeProjectId' =
                  IF isActive /\ Len(sameProjectChats) = 0
                     /\ Len(remaining) > 0
                  THEN IdOrNull(switchTo.projectId) ELSE activeProjectId
           /\ expandedProjectId' =
                  IF isActive /\ Len(sameProjectChats) = 0
                     /\ Len(remaining) > 0
                  THEN IdOrNull(switchTo.projectId) ELSE expandedProjectId
           /\ messages' =
                  IF ~isActive THEN messages
                  ELSE IF Len(remaining) > 0 THEN switchTo.messages
                  ELSE INITIAL_MESSAGES
    /\ UNCHANGED <<token, selVars, projects, isSending, inflight,
                   modelsFetch, chatStateFetch>>
    /\ UNCHANGED <<localStore, lastId>>

handleToggleProject(projectId) ==
    /\ LoggedIn
    /\ UserOp
    /\ \E i \in 1..Len(projects) : projects[i].id = projectId
    /\ activeProjectId' = projectId
    /\ expandedProjectId' =
           IF expandedProjectId = projectId THEN NullId ELSE projectId
    /\ UNCHANGED <<token, selVars, projects, chats, activeChatId, messages,
                   isSending, localStore, lastId, inflight, modelsFetch,
                   chatStateFetch>>

\* a mode button: setActiveMode, then the effect on the selection
setActiveMode(mode) ==
    /\ LoggedIn
    /\ UserOp
    /\ activeMode' = mode
    /\ selectedModel' = ModeEffect(mode, models, selectedModel)
    /\ UNCHANGED <<token, activeBrand, models, isLoadingModels, modelError,
                   selectedVideoModel, convVars, isSending, localStore, lastId,
                   inflight, modelsFetch, chatStateFetch>>

\* the model select's onChange, then the effect on the selection
setSelectedModel(id) ==
    /\ LoggedIn
    /\ UserOp
    /\ activeMode # "Video Prompts"
    /\ ~isLoadingModels
    /\ modelError = NullText
    /\ \E i \in 1..Len(FilteredModels(activeMode, models)) :
           FilteredModels(activeMode, models)[i].id = id
    /\ selectedModel' = ModeEffect(activeMode, models, StrOrNull(id))
    /\ UNCHANGED <<token, activeBrand, activeMode, models, isLoadingModels,
                   modelError, selectedVideoModel, convVars, isSending,
                   localStore, lastId, inflight, modelsFetch, chatStateFetch>>

\* what handleLogout does: removes authToken, sets token, models,
\* selectedModel and modelError
LogoutEffects ==
    /\ localStore' = [localStore EXCEPT !.authToken = Null]
    /\ token' = Null
    /\ models' = << >>
    /\ selectedModel' = Null
    /\ modelError' = NullText

handleLogout ==
    /\ LoggedIn
    /\ UserOp
    /\ LogoutEffects
    /\ UNCHANGED <<activeBrand, activeMode, isLoadingModels,
                   selectedVideoModel, convVars, isSending, inflight,
                   modelsFetch, chatStateFetch, lastId>>

\* the user message of a turn
UserMessage(text, brand, mode) ==
    Message("user", text, <<brand, mode>>, Undefined, Undefined, Undefined)

\* an assistant message that carries text only (error and notice messages)
TextMessage(text) ==
    Message("assistant", text, NoMeta, Undefined, Undefined, Undefined)

\* the body handleSend posts; now is the browser's new Date()
SendBody(trimmed, brand, mode, model, now) ==
    JObj(<<<<"prompt", JStr(trimmed)>>,
           <<"brand", JWord(brand)>>,
           <<"mode", JWord(mode)>>,
           <<"modelId", WordToJS(model)>>,
           <<"model", WordToJS(model)>>,
           <<"clientDate", JIso(toISOString(now))>>>>)

\* the body handleVideoPrompt posts
VideoBody(promptText, videoModel) ==
    JObj(<<<<"prompt", JStr(promptText)>>,
           <<"aspectRatio", JWord("16:9")>>,
           <<"durationSeconds", JNum(6)>>,
           <<"audioEnabled", JBool(TRUE)>>,
           <<"model", JWord(videoModel)>>>>)

\* handleSend up to its await, handleVideoPrompt included (isVideoMode);
\* input is the text in the message box, t and r are what createId reads,
\* now is what new Date() gives
handleSend(input, t, r, now) ==
    LET trimmed == Trim(input)
        created == activeChatId = NullId
        chats1 == IF created
                  THEN <<NewChat(createId(t, r), NullId, t)>> \o chats
                  ELSE chats
        noModel == activeMode # "Video Prompts" /\ selectedModel = Null
        newMessages ==
            IF noModel THEN Append(messages, TextMessage(<<"No model selected. Please wait for models to load or check the model loading error.">>))
            ELSE Append(messages,
                        UserMessage(trimmed, activeBrand, activeMode))
    IN  /\ LoggedIn
        /\ ~disableSend(input)
        /\ trimmed # << >>
        /\ UserOp
        /\ messages' = newMessages
        /\ chats' = PersistInto(chats1, activeChatId, newMessages)
        /\ activeChatId' = IF created THEN createId(t, r) ELSE activeChatId
        /\ activeProjectId' = IF created THEN NullId ELSE activeProjectId
        /\ expandedProjectId' =
               IF created THEN NullId ELSE expandedProjectId
        /\ isSending' = IF noModel THEN isSending ELSE TRUE
        /\ inflight' =
               IF noModel THEN inflight
               ELSE Append(inflight,
                           [handler |-> IF activeMode = "Video Prompts"
                                        THEN "handleVideoPrompt"
                                        ELSE "handleSend",
                            activeChatId |-> activeChatId,
                            newChatId |-> IF created THEN createId(t, r)
                                          ELSE NullId,
                            newMessages |-> newMessages,
                            url |-> SendEndpoint(activeMode, models),
                            authorization |-> Bearer(token),
                            body |-> IF activeMode = "Video Prompts"
                                     THEN VideoBody(trimmed,
                                                    selectedVideoModel)
                                     ELSE SendBody(trimmed, activeBrand,
                                                   activeMode, selectedModel,
                                                   now)])
        /\ UNCHANGED <<token, selVars, projects, modelsFetch,
                       chatStateFetch>>
        /\ UNCHANGED localStore
        /\ lastId' = IF created THEN createId(t, r) ELSE lastId

\* the message handleSend appends once its request has settled
SendReply(outcome) ==
    IF outcome.failed
    THEN TextMessage(TextOr(outcome.errMessage, BackendErrText))
    ELSE IF outcome.status = 401
    THEN TextMessage(TextOr(UnauthorizedText, BackendErrText))
    ELSE IF ~ResponseOk(outcome)
    THEN TextMessage(
             TextOr(TextOr(TextOfJS(GetProp(outcome.data, "error")),
                           <<"AI request failed">>),
                    BackendErrText))
    ELSE Message("assistant", TextOfJS(GetProp(outcome.data, "reply")),
                 NoMeta,
                 StrOrNull(WordOfJS(GetProp(outcome.data, "imageUrl"))),
                 Undefined, Undefined)

\* the message handleVideoPrompt appends once its request has settled
VideoReply(outcome) ==
    IF outcome.failed
    THEN TextMessage(TextOr(outcome.errMessage, VideoBackendErrText))
    ELSE IF outcome.status = 401
    THEN TextMessage(TextOr(UnauthorizedText, VideoBackendErrText))
    ELSE IF ~ResponseOk(outcome)
    THEN TextMessage(
             TextOr(TextOr(TextOfJS(GetProp(outcome.data, "error")),
                           <<"Video request failed">>),
                    VideoBackendErrText))
    ELSE Message("assistant", VideoReplyText, NoMeta, Undefined, "video",
                 StrOrNull(WordOfJS(GetProp(outcome.data, "videoUrl"))))

\* a variant of TurnReply whose message has the user's role
TurnReplyAsUser(handler, outcome) ==
    [(IF handler = "handleVideoPrompt" THEN VideoReply(outcome)
      ELSE SendReply(outcome)) EXCEPT !.role = "user"]

TurnReply(handler, outcome) ==
    IF handler = "handleVideoPrompt" THEN VideoReply(outcome)
    ELSE SendReply(outcome)

RemoveAt(s, i) == SubSeq(s, 1, i - 1) \o SubSeq(s, i + 1, Len(s))

\* a variant of SettleTurn that posts the request again and waits on
SettleTurnResends(i, outcome) == UNCHANGED clientVars

\* a variant of SettleTurn without the finally block: isSending stays
SettleTurnKeepsSending(i, outcome) ==
    LET c == inflight[i]
        finalMessages == Append(c.newMessages, TurnReply(c.handler, outcome))
        unauthorized == ~outcome.failed /\ outcome.status = 401
    IN  /\ messages' = finalMessages
        /\ chats' = PersistInto(chats, c.activeChatId, finalMessages)
        /\ inflight' = RemoveAt(inflight, i)
        /\ UNCHANGED <<activeBrand, activeMode, isLoadingModels,
                       selectedVideoModel, projects, activeProjectId,
                       activeChatId, expandedProjectId, modelsFetch,
                       chatStateFetch, ops, lastId, isSending>>
        /\ IF unauthorized
           THEN LogoutEffects
           ELSE UNCHANGED <<token, models, selectedModel, modelError,
                            localStore>>

\* the rest of handleSend or handleVideoPrompt, after the await
SettleTurn(i, outcome) ==
    LET c == inflight[i]
        finalMessages == Append(c.newMessages, TurnReply(c.handler, outcome))
        unauthorized == ~outcome.failed /\ outcome.status = 401
    IN  /\ messages' = finalMessages
        /\ chats' = PersistInto(chats, c.activeChatId, finalMessages)
        /\ isSending' = FALSE
        /\ inflight' = RemoveAt(inflight, i)
        /\ UNCHANGED <<activeBrand, activeMode, isLoadingModels,
                       selectedVideoModel, projects, activeProjectId,
                       activeChatId, expandedProjectId, modelsFetch,
                       chatStateFetch, ops, lastId>>
        /\ IF unauthorized
           THEN LogoutEffects
           ELSE UNCHANGED <<token, models, selectedModel, modelError,
                            localStore>>

\* fetchModels after its await: outcome.data.models is the list answered
FetchModelsDone(outcome, list) ==
    /\ modelsFetch = "pending"
    /\ modelsFetch' = "done"
    /\ isLoadingModels' = FALSE
    /\ IF outcome.failed
       THEN /\ modelError' = ModelLoadErrText
            /\ UNCHANGED <<token, models, selectedModel, localStore>>
       ELSE IF outcome.status = 401
       THEN LogoutEffects
       ELSE IF ~ResponseOk(outcome)
       THEN /\ modelError' = ModelLoadErrText
            /\ UNCHANGED <<token, models, selectedModel, localStore>>
       ELSE LET free == FindFirst(list, LAMBDA m : m.isFree)
                picked == IF Len(list) = 0 THEN selectedModel
                          ELSE IF free.found THEN free.value.id
                          ELSE list[1].id
            IN  /\ models' = list
                /\ selectedModel' = ModeEffect(activeMode, list, picked)
                /\ UNCHANGED <<token, modelError, localStore>>
    /\ UNCHANGED <<activeBrand, activeMode, selectedVideoModel, convVars,
                   isSending, inflight, chatStateFetch, ops, lastId>>

\* a variant of LoadDefault that leaves the session without project and chat
LoadDefaultEmpty(t1, r1, t2, r2) ==
    /\ projects' = << >>
    /\ chats' = << >>
    /\ activeChatId' = NullId
    /\ activeProjectId' = NullId
    /\ expandedProjectId' = NullId
    /\ messages' = INITIAL_MESSAGES
    /\ lastId' = lastId

\* loadChatState after its await: the default of an empty or failed load
LoadDefault(t1, r1, t2, r2) ==
    /\ projects' = <<[id |-> createId(t1, r1), name |-> GeneralName,
                      createdAt |-> t1]>>
    /\ chats' = <<NewChat(createId(t2, r2), NullId, t2)>>
    /\ activeChatId' = createId(t2, r2)
    /\ activeProjectId' = NullId
    /\ expandedProjectId' = NullId
    /\ messages' = INITIAL_MESSAGES
    /\ lastId' = createId(t2, r2)

\* loadChatState after its await; outcome is what GET /api/chat-state,
\* answered from the table, or the network made of the request
LoadChatStateDone(outcome, t1, r1, t2, r2) ==
    /\ chatStateFetch = "pending"
    /\ chatStateFetch' = "done"
    /\ IF outcome.failed \/ ~ResponseOk(outcome)
       THEN LoadDefault(t1, r1, t2, r2)
       ELSE LET serverProjects ==
                    ArrayOfJS(GetProp(outcome.data, "projects"), ProjectOfJS)
                serverChats ==
                    ArrayOfJS(GetProp(outcome.data, "chats"), ChatOfJS)
            IN  IF Len(serverProjects) > 0 \/ Len(serverChats) > 0
                THEN /\ projects' = serverProjects
                     /\ chats' = serverChats
                     /\ activeChatId' =
                            IF Len(serverChats) > 0 THEN serverChats[1].id
                            ELSE NullId
                     /\ activeProjectId' =
                            IF Len(serverChats) > 0
                            THEN IdOrNull(serverChats[1].projectId)
                            ELSE NullId
                     /\ expandedProjectId' =
                            IF Len(serverChats) > 0
                            THEN IdOrNull(serverChats[1].projectId)
                            ELSE NullId
                     /\ lastId' = lastId
                     /\ messages' =
                            IF Len(serverChats) > 0
                               /\ Len(serverChats[1].messages) > 0
                            THEN serverChats[1].messages
                            ELSE INITIAL_MESSAGES
                ELSE LoadDefault(t1, r1, t2, r2)
    /\ UNCHANGED <<token, selVars, isSending, inflight, modelsFetch, ops>>
    /\ UNCHANGED localStore

\* the outcomes of the client's GET /api/chat-state: the fetch fails, the
\* backend refuses the token or fails to read its table, or it answers from
\* the table
LoadOutcomes ==
    {Failure(FailedToFetchText),
     Response(401, JObj(<<<<"error", JStr(InvalidTokenText)>>>>)),
     Response(500, JObj(<<<<"error", JStr(<<"Failed to load chat state.">>)>>>>)),
     LET answer == GetChatState(Bearer(SessionToken), table)
     IN  Response(answer.status, OverHttp(answer.body))}

\* the outcomes of the client's GET /api/models
ModelsOutcomes ==
    {Failure(FailedToFetchText), Response(401, JObj(<< >>)),
     Response(200, JObj(<< >>))}

----------------------------------------------------------------------------
(* The client's specification                                              *)

\* a snapshot saved in an earlier session: its ids and dates were made
\* before this session's clock readings; one project, a chat in it and an
\* unfiled chat
StoredProjects == <<[id |-> <<0, 1>>, name |-> <<"P">>, createdAt |-> 0]>>
StoredChats ==
    <<[id |-> <<0, 2>>, projectId |-> NullId, title |-> <<"y", "o">>,
       messages |-> INITIAL_MESSAGES
                    \o <<UserMessage(<<"y", "o">>, "DSSA", "Chat / Brain"),
                         TextMessage(ServerAiFailedText)>>,
       createdAt |-> 0],
      [id |-> <<0, 1>>, projectId |-> <<0, 1>>, title |-> <<"h", "i">>,
       messages |-> INITIAL_MESSAGES
                    \o <<UserMessage(<<"h", "i">>, "DSSA", "Chat / Brain"),
                         Message("assistant", ModelReplyText, NoMeta, Null,
                                 Undefined, Undefined)>>,
       createdAt |-> 0]>>

\* the tables the backend may hold when the client starts
StoredTables ==
    {{},
     {[id |-> "default",
       data |-> Stringify(SnapshotToJS(StoredProjects, StoredChats))]},
     {[id |-> "default",
       data |-> Stringify(SnapshotToJS(StoredProjects, << >>))]}}

\* the model list the session has fetched
LoadedCatalog == <<TextModel, ImageModel>>

\* the component mounted with a stored token: both effects on [token] have
\* sent their request, the save effect has run once; list is the model list
\* and fetch says whether fetchModels is still at its await
Mounted(stored, list, fetch) ==
    /\ token = stored
    /\ activeBrand = BRANDS[1]
    /\ activeMode = MODES[1]
    /\ messages = INITIAL_MESSAGES
    /\ isSending = FALSE
    /\ models = list
    /\ selectedModel = IF Len(list) = 0 THEN Null ELSE list[1].id
    /\ isLoadingModels = (fetch = "pending")
    /\ modelError = NullText
    /\ selectedVideoModel = VIDEO_MODELS[1]
    /\ projects = << >>
    /\ chats = << >>
    /\ activeProjectId = NullId
    /\ activeChatId = NullId
    /\ expandedProjectId = NullId
    /\ localStore = [authToken |-> stored]
    /\ inflight = << >>
    /\ modelsFetch = fetch
    /\ chatStateFetch = "pending"
    /\ ops = 0
    /\ lastId = NoId

\* the session holds a token the backend accepts and has its model list
ClientInit == Mounted(SessionToken, LoadedCatalog, "done")

\* the backend has served no request yet
ServerInit ==
    /\ req = NoRequest
    /\ res = NoResponse
    /\ upstream = << >>
    /\ saved = NoSave

Init ==
    /\ ClientInit
    /\ ServerInit
    /\ timeZone = 0
    /\ listing = ServedListing
    /\ table \in StoredTables

Next ==
    \/ \E name \in ProjectNames, read \in Readings :
           handleCreateProject(name, read[1], read[2])
               /\ UNCHANGED serverVars
    \/ \E i \in 1..Len(projects) :
           handleDeleteProject(projects[i].id) /\ UNCHANGED serverVars
    \/ \E read \in Readings :
           handleNewChat(NullId, read[1], read[2]) /\ UNCHANGED serverVars
    \/ \E i \in 1..Len(projects), read \in Readings :
           handleNewChat(projects[i].id, read[1], read[2])
               /\ UNCHANGED serverVars
    \/ \E i \in 1..Len(chats) :
           handleSelectChat(chats[i].id) /\ UNCHANGED serverVars
    \/ \E i \in 1..Len(chats) :
           handleDeleteChat(chats[i].id) /\ UNCHANGED serverVars
    \/ \E i \in 1..Len(projects) :
           handleToggleProject(projects[i].id) /\ UNCHANGED serverVars
    \/ \E i \in 1..Len(MODES) :
           setActiveMode(MODES[i]) /\ UNCHANGED serverVars
    \/ handleLogout /\ UNCHANGED serverVars
    \/ \E input \in Inputs, read \in Readings :
           handleSend(input, read[1], read[2], DateAt(2026, 11, 2, 10, 0))
               /\ UNCHANGED serverVars
    \/ \E i \in 1..Len(inflight) :
           \E outcome \in TurnOutcomes(inflight[i].url) :
               SettleTurn(i, outcome) /\ UNCHANGED serverVars
    \/ /\ chatStateFetch = "pending"
       /\ \E outcome \in LoadOutcomes, read1 \in Readings :
              \E read2 \in ReadingsAfter(read1) :
                  LoadChatStateDone(outcome, read1[1], read1[2],
                                    read2[1], read2[2])
                      /\ UNCHANGED serverVars

vars == <<clientVars, serverVars>>

Spec == Init /\ [][Next]_vars

----------------------------------------------------------------------------
(* The chat-state endpoints served to any caller (StoreSpec)               *)

\* the Authorization headers a caller may send
Authorizations ==
    {NoHeader, Bearer("jwt"), Bearer("forged"), Bearer(""),
     [scheme |-> "Basic ", token |-> "jwt"]}

\* req.body as express.json() hands it over: snapshots a client would send,
\* one with a further top-level key, and bodies the handler has to refuse or
\* takes although they are no snapshot
PostedBodies ==
    {OverHttp(SnapshotToJS(StoredProjects, StoredChats)),
     OverHttp(SnapshotToJS(StoredProjects, << >>)),
     EmptySnapshot,
     JObj(SetProp(OverHttp(SnapshotToJS(<< >>, StoredChats)).v, "user",
                  JStr(GeneralName))),
     JObj(<< >>),
     JObj(<<<<"projects", JArr(<< >>)>>>>),
     JObj(<<<<"projects", JNull>>, <<"chats", JArr(<< >>)>>>>),
     JObj(<<<<"projects", JArr(<< >>)>>, <<"chats", JNum(0)>>>>),
     JObj(<<<<"projects", JStr(GeneralName)>>, <<"chats", JArr(<< >>)>>>>)}

\* { projects, chats } of a body
SnapshotOf(body) ==
    JObj(<<<<"projects", GetProp(body, "projects")>>,
           <<"chats", GetProp(body, "chats")>>>>)

\* a variant of GetChatStateRequest that stores an empty snapshot when it
\* finds no row
GetChatStateRequestInit(authorization) ==
    /\ req' = [method |-> "GET", url |-> "/api/chat-state",
               authorization |-> authorization, body |-> JUndef]
    /\ res' = GetChatState(authorization, table)
    /\ table' = IF requireAuth(authorization) = 0
                   /\ SelectRow(table, "default") = {}
                THEN UpsertRow(table, "default", Stringify(EmptySnapshot))
                ELSE table
    /\ UNCHANGED <<upstream, saved, timeZone, listing, clientVars>>

\* GET /api/chat-state, from the request to the response
GetChatStateRequest(authorization) ==
    /\ req' = [method |-> "GET", url |-> "/api/chat-state",
               authorization |-> authorization, body |-> JUndef]
    /\ res' = GetChatState(authorization, table)
    /\ UNCHANGED <<table, upstream, saved, timeZone, listing, clientVars>>

\* POST /api/chat-state, from the request to the response
PostChatStateRequest(authorization, body) ==
    LET answer == PostChatState(authorization, body, table)
    IN  /\ req' = [method |-> "POST", url |-> "/api/chat-state",
                   authorization |-> authorization, body |-> body]
        /\ res' = [status |-> answer.status, body |-> answer.body]
        /\ table' = answer.table
        /\ saved' = IF answer.status = 200 THEN SnapshotOf(body) ELSE saved
        /\ UNCHANGED <<upstream, timeZone, listing, clientVars>>

\* the backend starts on an empty table
StoreInit ==
    /\ ClientInit
    /\ ServerInit
    /\ timeZone = 0
    /\ listing = ServedListing
    /\ table = {}

StoreNext ==
    \/ \E authorization \in Authorizations :
           GetChatStateRequest(authorization)
    \/ \E authorization \in Authorizations, body \in PostedBodies :
           PostChatStateRequest(authorization, body)

StoreSpec == StoreInit /\ [][StoreNext]_vars

----------------------------------------------------------------------------
(* A turn from the message box through the backend and back (RouteSpec)    *)

\* "How many days to Christmas?" and a prompt that asks nothing of the kind
ChristmasPrompt ==
    <<"H">> \o Tail(HowManyDays) \o <<" ", "t", "o", " ", "C">>
    \o Tail(Christmas) \o <<"?">>
RoutePrompts == {ChristmasPrompt, <<"g", "o">>}

\* the time zones the backend may run in: UTC-5, UTC and UTC+2
Zones == {0 - 300, 0, 120}

\* process.env.DEFAULT_IMAGE_MODEL is not set
NoEnvModel == JUndef

\* the message of the SyntaxError response.json() throws on a page
NotJsonText == <<"Unexpected token '<', \"<!DOCTYPE \"... is not valid JSON">>

\* what the upstream provider may answer to a call
UpstreamOutcomes(url) ==
    IF url = "/api/image"
    THEN {Response(200,
                   JObj(<<<<"choices",
                            JArr(<<JObj(<<<<"message",
                                JObj(<<<<"images",
                                    JArr(<<JObj(<<<<"image_url",
                                        JObj(<<<<"url",
                                            JWord("https://img")>>>>)>>>>)
                                         >>)>>>>)>>>>)>>)>>>>)),
          Response(200,
                   JObj(<<<<"choices",
                            JArr(<<JObj(<<<<"message",
                                JObj(<<<<"images",
                                    JArr(<<JObj(<<<<"imageUrl",
                                        JObj(<<<<"url",
                                            JWord("https://img2")>>>>)>>>>)
                                         >>)>>>>)>>>>)>>)>>>>)),
          Response(200,
                   JObj(<<<<"choices",
                            JArr(<<JObj(<<<<"message",
                                JObj(<<<<"content",
                                         JStr(ModelReplyText)>>>>)>>>>)
                                 >>)>>>>)),
          Response(429, JObj(<< >>)),
          Failure(<<"timeout of 60000ms exceeded">>)}
    ELSE {Response(200,
                   JObj(<<<<"choices",
                            JArr(<<JObj(<<<<"message",
                                JObj(<<<<"content",
                                         JStr(ModelReplyText)>>>>)>>>>)
                                 >>)>>>>)),
          Response(429, JObj(<< >>)),
          Failure(<<"timeout of 60000ms exceeded">>)}

\* fetch and response.json() on the backend's response
OutcomeOf(response) ==
    IF response.body = NotFoundPage THEN Failure(NotJsonText)
    ELSE Response(response.status, OverHttp(response.body))

\* the backend receives the request of the turn in flight and runs its
\* handler up to the response or to the await
ReceiveTurn(clock) ==
    /\ Len(inflight) = 1
    /\ req = NoRequest
    /\ LET request == [method |-> "POST", url |-> inflight[1].url,
                       authorization |-> inflight[1].authorization,
                       body |-> OverHttp(inflight[1].body)]
           answer == TurnRoute(request, clock, timeZone, NoEnvModel)
       IN  /\ req' = request
           /\ res' = IF answer.await THEN NoResponse
                     ELSE [status |-> answer.status, body |-> answer.body]
           /\ upstream' = IF answer.await THEN <<answer.call>> ELSE << >>
    /\ UNCHANGED <<table, saved, timeZone, listing, clientVars>>

\* the upstream call of the handler settles and the handler responds
UpstreamDone(outcome) ==
    /\ req # NoRequest
    /\ res = NoResponse
    /\ LET answer == TurnSettle(req, outcome)
       IN  res' = [status |-> answer.status, body |-> answer.body]
    /\ UNCHANGED <<table, req, upstream, saved, timeZone, listing, clientVars>>

\* the response reaches the client, which runs the rest of its handler
DeliverTurn ==
    /\ req # NoRequest
    /\ res # NoResponse
    /\ SettleTurn(1, OutcomeOf(res))
    /\ req' = NoRequest
    /\ res' = NoResponse
    /\ UNCHANGED <<table, upstream, saved, timeZone, listing>>

RouteInit ==
    /\ ClientInit
    /\ ServerInit
    /\ table = {}
    /\ timeZone \in Zones
    /\ listing = ServedListing

RouteNext ==
    \/ \E i \in 1..Len(MODES) :
           setActiveMode(MODES[i]) /\ UNCHANGED serverVars
    \/ \E input \in RoutePrompts, read \in Readings, now \in Clock :
           handleSend(input, read[1], read[2], now) /\ UNCHANGED serverVars
    \/ \E clock \in Clock : ReceiveTurn(clock)
    \/ \E outcome \in UpstreamOutcomes(req.url) : UpstreamDone(outcome)
    \/ DeliverTurn

RouteSpec == RouteInit /\ [][RouteNext]_vars

\* a token the backend accepts no more
StaleToken == "jwt-old"

\* as RouteInit, the stored token being one the backend accepts or not
TurnInit ==
    /\ \E stored \in {SessionToken, StaleToken} :
           Mounted(stored, LoadedCatalog, "done")
    /\ ServerInit
    /\ table = {}
    /\ timeZone \in Zones
    /\ listing = ServedListing

TurnSpec == TurnInit /\ [][RouteNext]_vars

----------------------------------------------------------------------------
(* The turn routes under any request, beside the message box (AiSpec)      *)

\* "how many days until christmas", with no year, with 2026 and with 2020
NextChristmasPrompt ==
    HowManyDays \o <<" ", "u", "n", "t", "i", "l", " ">> \o Christmas
Christmas2026Prompt ==
    <<"H">> \o Tail(NextChristmasPrompt) \o <<" ", "2", "0", "2", "6", "?">>
Christmas2020Prompt == NextChristmasPrompt \o <<" ", "2", "0", "2", "0">>

\* the prompt of a posted body: a question, another text, an empty or blank
\* string, or no prompt at all
PostedPrompts ==
    {JStr(NextChristmasPrompt), JStr(Christmas2026Prompt),
     JStr(Christmas2020Prompt), JStr(<<"g", "o">>), JStr(<< >>),
     JStr(<<" ", " ">>), JUndef}

\* the ISO string of the date with the given UTC fields
IsoAt(year, month, day, hour, minute) ==
    JIso([year |-> year, month |-> month, day |-> day, hour |-> hour,
          minute |-> minute, second |-> 0, milli |-> 0])

\* the clientDate of a posted body: none, an ISO string, or a text that is
\* no date
PostedDates ==
    {JUndef, IsoAt(2025, 1, 1, 0, 0), IsoAt(2025, 12, 26, 0, 0),
     IsoAt(2026, 12, 24, 23, 0), JStr(<<"soon">>)}

\* brand, mode and model of a posted body
PostedSettings ==
    {[brand |-> JWord(BRANDS[1]), mode |-> JWord(MODES[1]),
      modelId |-> JWord("m-text")],
     [brand |-> JWord(BRANDS[2]), mode |-> JWord(MODES[2]),
      modelId |-> JUndef]}

\* JSON.stringify drops a property that is undefined
Body(members) ==
    JObj(SelectSeq(members, LAMBDA m : m[2] # JUndef))

PostedTurns ==
    {Body(<<<<"prompt", p>>, <<"brand", s.brand>>, <<"mode", s.mode>>,
            <<"modelId", s.modelId>>, <<"model", s.modelId>>,
            <<"clientDate", d>>>>) :
        p \in PostedPrompts, d \in PostedDates, s \in PostedSettings}

\* the requests that reach the turn routes, as express.json() hands them
\* to the handler
PostedRequests ==
    {[method |-> "POST", url |-> url, authorization |-> Bearer(SessionToken),
      body |-> OverHttp(body)] :
        url \in {"/api/ai", "/api/image"}, body \in PostedTurns}

\* what the turn routes make of each of these requests at each reading of
\* the backend's clock in each time zone
TurnAnswers ==
    [request \in PostedRequests, clock \in Clock, zone \in Zones |->
        TurnRoute(request, clock, zone, NoEnvModel)]

\* the backend is not in the middle of a request
Idle == req = NoRequest \/ res # NoResponse

\* a request reaches the backend, which runs its handler up to the response
\* or to the await
ReceiveRequest(request, clock) ==
    /\ Idle
    /\ LET answer == TurnAnswers[request, clock, timeZone]
       IN  /\ req' = request
           /\ res' = IF answer.await THEN NoResponse
                     ELSE [status |-> answer.status, body |-> answer.body]
           /\ upstream' = IF answer.await THEN <<answer.call>> ELSE << >>
    /\ UNCHANGED <<table, saved, timeZone, listing, clientVars>>

AiInit ==
    /\ ClientInit
    /\ ServerInit
    /\ table = {}
    /\ timeZone \in Zones
    /\ listing = ServedListing

AiNext ==
    \/ \E request \in PostedRequests, clock \in Clock :
           ReceiveRequest(request, clock)
    \/ \E outcome \in UpstreamOutcomes(req.url) : UpstreamDone(outcome)

AiSpec == AiInit /\ [][AiNext]_vars

----------------------------------------------------------------------------
(* The message box, and the turn routes under any prompt (InputSpec)       *)

\* the requests that carry no clientDate and the first settings
UndatedRequests ==
    {request \in PostedRequests :
        /\ GetProp(request.body, "clientDate") = JUndef
        /\ GetProp(request.body, "brand") = JWord(BRANDS[1])}

InputInit ==
    /\ ClientInit
    /\ ServerInit
    /\ table = {}
    /\ timeZone = 0
    /\ listing = ServedListing

InputNext ==
    \/ \E i \in 1..Len(MODES) :
           setActiveMode(MODES[i]) /\ UNCHANGED serverVars
    \/ \E input \in Inputs, read \in Readings :
           handleSend(input, read[1], read[2], DateAt(2026, 11, 2, 10, 0))
               /\ UNCHANGED serverVars
    \/ \E i \in 1..Len(inflight) :
           \E outcome \in TurnOutcomes(inflight[i].url) :
               SettleTurn(i, outcome) /\ UNCHANGED serverVars
    \/ \E request \in UndatedRequests :
           ReceiveRequest(request, DateAt(2026, 11, 2, 10, 0))
    \/ \E outcome \in UpstreamOutcomes(req.url) : UpstreamDone(outcome)

InputSpec == InputInit /\ [][InputNext]_vars

----------------------------------------------------------------------------
(* Modes, the model list and the selected model (ModeSpec)                 *)

\* the component mounted with a stored token, fetchModels at its await
ModeInit ==
    /\ Mounted(SessionToken, << >>, "pending")
    /\ ServerInit
    /\ table = {}
    /\ timeZone = 0
    /\ listing = ServedListing

\* the notice "No models available for this mode." is on the screen
NoModelsNotice ==
    /\ activeMode # "Video Prompts"
    /\ ~isLoadingModels
    /\ modelError = NullText
    /\ Len(FilteredModels(activeMode, models)) = 0

ModeNext ==
    \/ \E outcome \in ModelsOutcomes, list \in Catalogs :
           FetchModelsDone(outcome, list) /\ UNCHANGED serverVars
    \/ \E i \in 1..Len(MODES) :
           setActiveMode(MODES[i]) /\ UNCHANGED serverVars
    \/ \E i \in 1..Len(models) :
           setSelectedModel(models[i].id) /\ UNCHANGED serverVars

ModeSpec == ModeInit /\ [][ModeNext]_vars

----------------------------------------------------------------------------
(* The listing routes and the client's model list (CatalogSpec)            *)

ListingUrls == {"/api/models", "/api/video-models"}

\* a listing request reaches the backend, which runs requireAuth and the
\* handler up to its await
ReceiveListing(url, authorization) ==
    /\ Idle
    /\ req' = [method |-> "GET", url |-> url,
               authorization |-> authorization, body |-> JUndef]
    /\ res' = IF requireAuth(authorization) # 0
              THEN [status |-> requireAuth(authorization),
                    body |-> requireAuthError(authorization)]
              ELSE NoResponse
    /\ upstream' = IF requireAuth(authorization) # 0 THEN << >>
                   ELSE <<ApiModels.call>>
    /\ UNCHANGED <<table, saved, timeZone, listing, clientVars>>

\* the provider has answered and the handler responds
ListingDone ==
    /\ req.url \in ListingUrls
    /\ res = NoResponse
    /\ LET answer == ApiModelsSettle(req.url, listing)
       IN  res' = [status |-> answer.status, body |-> answer.body]
    /\ UNCHANGED <<table, req, upstream, saved, timeZone, listing,
                   clientVars>>

\* the response to the client's own request reaches fetchModels
DeliverModels ==
    /\ req.url = "/api/models"
    /\ req.authorization = Bearer(token)
    /\ res # NoResponse
    /\ FetchModelsDone(OutcomeOf(res), ModelsOfBody(OverHttp(res.body)))
    /\ UNCHANGED serverVars

\* the component mounted, before the provider's list has arrived
CatalogInit ==
    /\ Mounted(SessionToken, << >>, "pending")
    /\ ServerInit
    /\ table = {}
    /\ timeZone = 0
    /\ listing \in Listings

CatalogNext ==
    \/ \E url \in ListingUrls : ReceiveListing(url, Bearer(SessionToken))
    \/ ListingDone
    \/ DeliverModels
    \/ FetchModelsDone(Failure(FailedToFetchText), << >>)
           /\ UNCHANGED serverVars

CatalogSpec == CatalogInit /\ [][CatalogNext]_vars
----------------------------------------------------------------------------
(* Every route of the backend under requests of any caller (GateSpec)      *)

\* the bodies a caller posts to /api/login
LoginBodies ==
    {JObj(<<<<"password", ADMIN_PASSWORD>>>>),
     JObj(<<<<"password", JStr(<<"guess">>)>>>>),
     JObj(<<<<"password", JStr(<< >>)>>>>),
     JObj(<<<<"password", JBool(TRUE)>>>>),
     JObj(<<<<"password", JNull>>>>),
     JObj(<< >>)}

\* the turns a caller posts
GateTurns ==
    {[method |-> "POST", url |-> url, authorization |-> authorization,
      body |-> body] :
         url \in {"/api/ai", "/api/image"},
         authorization \in Authorizations,
         body \in {JObj(<<<<"prompt", JStr(<<"g", "o">>)>>>>),
                   JObj(<<<<"prompt", JStr(ChristmasPrompt)>>>>)}}

\* POST /api/login, from the request to the response
LoginRequest(body) ==
    /\ req' = [method |-> "POST", url |-> "/api/login",
               authorization |-> NoHeader, body |-> body]
    /\ res' = ApiLogin(body)
    /\ UNCHANGED <<table, upstream, saved, timeZone, listing, clientVars>>

\* a posted turn reaches the backend, which runs requireAuth and the handler
\* up to the response or to the await
ReceivePosted(request, clock) ==
    /\ LET answer == TurnRoute(request, clock, timeZone, NoEnvModel)
       IN  /\ req' = request
           /\ res' = IF answer.await THEN NoResponse
                     ELSE [status |-> answer.status, body |-> answer.body]
           /\ upstream' = IF answer.await THEN <<answer.call>> ELSE << >>
    /\ UNCHANGED <<table, saved, timeZone, listing, clientVars>>

GateInit ==
    /\ ClientInit
    /\ ServerInit
    /\ table = {}
    /\ timeZone = 0
    /\ listing = ServedListing

GateNext ==
    \/ Idle /\ \E body \in LoginBodies : LoginRequest(body)
    \/ Idle /\ \E authorization \in Authorizations :
                   GetChatStateRequest(authorization)
    \/ Idle /\ \E authorization \in Authorizations, body \in PostedBodies :
                   PostChatStateRequest(authorization, body)
    \/ \E url \in ListingUrls, authorization \in Authorizations :
           ReceiveListing(url, authorization)
    \/ ListingDone
    \/ Idle /\ \E request \in GateTurns :
                   ReceivePosted(request, DateAt(2026, 11, 2, 10, 0))
    \/ /\ req.url \in {"/api/ai", "/api/image"}
       /\ \E outcome \in UpstreamOutcomes(req.url) : UpstreamDone(outcome)

GateSpec == GateInit /\ [][GateNext]_vars
----------------------------------------------------------------------------
(* Chats and their titles under long prompts (TitleSpec)                   *)

\* the letters a long prompt is typed from
Alphabet ==
    <<"a", "b", "c", "d", "e", "f", "g", "h", "i", "j", "k", "l", "m">>

\* a text of n characters, none of them white space
Typed(n) == [i \in 1..n |-> Alphabet[((i - 1) % Len(Alphabet)) + 1]]

\* what the user types: 40 and 41 characters between white space, and a
\* blank text
TitleInputs ==
    {<<" ", "\n">> \o Typed(TitleMax),
     <<" ">> \o Typed(TitleMax + 1) \o <<" ">>,
     <<" ", " ">>}

TitleInit ==
    /\ ClientInit
    /\ ServerInit
    /\ timeZone = 0
    /\ listing = ServedListing
    /\ table = {[id |-> "default",
                 data |-> Stringify(SnapshotToJS(StoredProjects,
                                                 StoredChats))]}

TitleNext ==
    \/ \E read \in Readings :
           handleNewChat(NullId, read[1], read[2]) /\ UNCHANGED serverVars
    \/ \E i \in 1..Len(chats) :
           handleSelectChat(chats[i].id) /\ UNCHANGED serverVars
    \/ \E input \in TitleInputs, read \in Readings :
           handleSend(input, read[1], read[2], DateAt(2026, 11, 2, 10, 0))
               /\ UNCHANGED serverVars
    \/ \E i \in 1..Len(inflight) :
           \E outcome \in TurnOutcomes(inflight[i].url) :
               SettleTurn(i, outcome) /\ UNCHANGED serverVars
    \/ /\ chatStateFetch = "pending"
       /\ LET answer == GetChatState(Bearer(SessionToken), table)
          IN  LoadChatStateDone(Response(answer.status,
                                         OverHttp(answer.body)), 0, 0, 0, 0)
                  /\ UNCHANGED serverVars

TitleSpec == TitleInit /\ [][TitleNext]_vars
----------------------------------------------------------------------------
(* The pending turn when its request settles (LiveSpec)                    *)

\* every request of a turn settles: the fetch resolves, rejects or times
\* out, and the handler suspended at its await is resumed
TurnSettles ==
    \E i \in 1..Len(inflight) :
        \E outcome \in TurnOutcomes(inflight[i].url) :
            SettleTurn(i, outcome) /\ UNCHANGED serverVars

\* the operations around a pending turn: the user submits, changes the mode,
\* selects a chat or logs out, the snapshot load is answered from
\* the table, and the request of a turn settles
LiveNext ==
    \/ \E i \in 1..Len(chats) :
           handleSelectChat(chats[i].id) /\ UNCHANGED serverVars
    \/ \E i \in 1..Len(MODES) :
           setActiveMode(MODES[i]) /\ UNCHANGED serverVars
    \/ handleLogout /\ UNCHANGED serverVars
    \/ \E input \in Inputs, read \in Readings :
           handleSend(input, read[1], read[2], DateAt(2026, 11, 2, 10, 0))
               /\ UNCHANGED serverVars
    \/ TurnSettles
    \/ /\ chatStateFetch = "pending"
       /\ \E read1 \in Readings :
              \E read2 \in ReadingsAfter(read1) :
                  LET answer == GetChatState(Bearer(SessionToken), table)
                  IN  LoadChatStateDone(Response(answer.status,
                                                 OverHttp(answer.body)),
                                        read1[1], read1[2],
                                        read2[1], read2[2])
                          /\ UNCHANGED serverVars

\* the client when every request of a turn settles
LiveSpec == TitleInit /\ [][LiveNext]_vars /\ WF_vars(TurnSettles)
----------------------------------------------------------------------------
(* The date special case around Dec 25 (CountSpec)                         *)

\* the ISO string of a date with the given UTC fields, to the millisecond
IsoAtMilli(year, month, day, hour, minute, milli) ==
    JIso([year |-> year, month |-> month, day |-> day, hour |-> hour,
          minute |-> minute, second |-> 0, milli |-> milli])

\* the date question without a year, as typed, in capitals and shortened
YearlessPrompts ==
    {NextChristmasPrompt,
     [i \in 1..Len(NextChristmasPrompt) |->
         IF \E k \in 1..Len(LowerCase) : LowerCase[k] = NextChristmasPrompt[i]
         THEN UpperCase[CHOOSE k \in 1..Len(LowerCase) :
                            LowerCase[k] = NextChristmasPrompt[i]]
         ELSE NextChristmasPrompt[i]],
     ChristmasPrompt}

\* the clientDate of the question: none; the start of Dec 25 in each of the
\* zones, the moments around it and later moments of the day; the days
\* before and after; the first day of a year, of a leap year, and Feb 29;
\* Dec 25 before a leap year
CountDates ==
    {JUndef,
     IsoAt(2026, 12, 24, 21, 59), IsoAt(2026, 12, 24, 22, 0),
     IsoAtMilli(2026, 12, 24, 22, 0, 1), IsoAt(2026, 12, 24, 23, 59),
     IsoAt(2026, 12, 25, 0, 0), IsoAtMilli(2026, 12, 25, 0, 0, 1),
     IsoAt(2026, 12, 25, 4, 59), IsoAt(2026, 12, 25, 5, 0),
     IsoAtMilli(2026, 12, 25, 5, 0, 1), IsoAt(2026, 12, 25, 23, 59),
     IsoAt(2026, 12, 26, 4, 59), IsoAt(2026, 12, 26, 5, 0),
     IsoAt(2026, 1, 1, 0, 0), IsoAt(2028, 1, 1, 5, 0),
     IsoAt(2028, 2, 29, 12, 0),
     IsoAtMilli(2027, 12, 24, 22, 0, 1), IsoAtMilli(2027, 12, 25, 0, 0, 1),
     IsoAtMilli(2027, 12, 25, 5, 0, 1), IsoAt(2027, 12, 25, 5, 0)}

\* the requests that ask the question
CountRequests ==
    {[method |-> "POST", url |-> "/api/ai",
      authorization |-> Bearer(SessionToken),
      body |-> OverHttp(Body(<<<<"prompt", JStr(p)>>,
                               <<"clientDate", d>>>>))] :
        p \in YearlessPrompts, d \in CountDates}

CountInit ==
    /\ ClientInit
    /\ ServerInit
    /\ table = {}
    /\ timeZone \in Zones
    /\ listing = ServedListing

CountNext ==
    \E request \in CountRequests, clock \in Clock :
        Idle /\ ReceivePosted(request, clock)

CountSpec == CountInit /\ [][CountNext]_vars
----------------------------------------------------------------------------
(* Properties of the client (Spec)                                         *)

IsPrefix(a, b) == Len(a) <= Len(b) /\ SubSeq(b, 1, Len(a)) = a

ChatIds(cs) == {cs[i].id : i \in 1..Len(cs)}
ProjectIds(ps) == {ps[i].id : i \in 1..Len(ps)}
UniqueChatIds(cs) == Cardinality(ChatIds(cs)) = Len(cs)

\* a step that submits a turn, and one that completes the turn inflight[i]
IsSubmit == Len(inflight') = Len(inflight) + 1
IsSettle(i) ==
    /\ i \in 1..Len(inflight)
    /\ inflight' = RemoveAt(inflight, i)

\* C1: deleting project P removes P from the project list and removes from
\* the chat list exactly the chats whose projectId is P's id; every other
\* project and chat stays, in the same order and with the same content.
C1_DeleteProjectCascades ==
    [][\A i \in 1..Len(projects) :
           handleDeleteProject(projects[i].id) =>
               /\ projects' =
                      SelectSeq(projects,
                                LAMBDA p : p.id # projects[i].id)
               /\ chats' =
                      SelectSeq(chats,
                                LAMBDA c : c.projectId # projects[i].id)
               /\ projects[i].id \notin ProjectIds(projects')
               /\ \A j \in 1..Len(chats') :
                      chats'[j].projectId # projects[i].id]_vars

\* a stored project was deleted with its chat, the stored unfiled chat and
\* another project are still there
C1_Witness ==
    /\ chatStateFetch = "done"
    /\ StoredProjects[1].id \notin ProjectIds(projects)
    /\ Len(projects) = 1
    /\ Len(chats) = 1
    /\ chats[1] = StoredChats[1]
    /\ chats[1].projectId = NullId

\* C2: every chat's projectId is null or the id of a project in the list.
C2_ChatsReferenceProjects ==
    \A i \in 1..Len(chats) :
        \/ chats[i].projectId = NullId
        \/ chats[i].projectId \in ProjectIds(projects)

\* the project the load gave has been deleted, and a chat is filed under a
\* project made since
C2_Witness ==
    /\ chatStateFetch = "done"
    /\ Len(projects) = 1
    /\ projects[1].id # StoredProjects[1].id
    /\ projects[1].name # GeneralName
    /\ \E i \in 1..Len(chats) : chats[i].projectId = projects[1].id

C4_ChatsAppendOnly ==
    [][(/\ chatStateFetch = "done"
        /\ UniqueChatIds(chats)
        /\ UniqueChatIds(chats'))
       => \A i \in 1..Len(chats), j \in 1..Len(chats') :
              chats[i].id = chats'[j].id =>
                  IsPrefix(chats[i].messages, chats'[j].messages)]_vars

\* C5: when a turn completes, the chat it belongs to (the one active at
\* submission, or the one created for it), if still in the list, ends with
\* the turn's user message and its reply.
C5_TurnStoredInItsChat ==
    [][\A i \in 1..Len(inflight) :
           IsSettle(i) =>
               LET c == inflight[i]
                   own == IF c.activeChatId # NullId THEN c.activeChatId
                          ELSE c.newChatId
                   n == Len(messages')
               IN  \A j \in 1..Len(chats') :
                       chats'[j].id = own =>
                           LET k == Len(chats'[j].messages)
                           IN  /\ k >= 2
                               /\ chats'[j].messages[k] = messages'[n]
                               /\ chats'[j].messages[k - 1]
                                      = messages'[n - 1]]_vars

\* what a load of the backend's snapshot gives the client
ServerProjects ==
    ArrayOfJS(GetProp(OverHttp(GetChatState(Bearer(SessionToken),
                                            table).body), "projects"),
              ProjectOfJS)
ServerChats ==
    ArrayOfJS(GetProp(OverHttp(GetChatState(Bearer(SessionToken),
                                            table).body), "chats"),
              ChatOfJS)

\* no request of the client is in flight
Quiescent ==
    /\ Len(inflight) = 0
    /\ chatStateFetch = "done"
    /\ modelsFetch = "done"

\* C6: once the user has changed something and no request is in flight any
\* more, the backend's snapshot is the client's projects and chats.
C6_SnapshotReachesBackend ==
    (Quiescent /\ ops > 0) =>
        /\ ServerProjects = projects
        /\ ServerChats = chats


\* C19: turns are serialized: from the submission of a turn until its
\* request settles isSending is true and no other turn is submitted, so at
\* most one request of the client is in flight at any moment, whatever chat
\* or mode is active.
C19_TurnsSerialized ==
    [][/\ Len(inflight') <= 1
       /\ Len(inflight') = 1 => isSending'
       /\ IsSubmit => (~isSending /\ Len(inflight) = 0)]_vars

\* a turn is pending while another chat has been made the active one and
\* the mode has been changed
C19_Witness ==
    /\ Len(inflight) = 1
    /\ isSending
    /\ activeChatId # inflight[1].activeChatId
    /\ activeChatId # inflight[1].newChatId
    /\ activeMode # MODES[1]

UniqueProjectIds(ps) == Cardinality(ProjectIds(ps)) = Len(ps)

\* C31: no two projects share an id and no two chats share an id, whatever
\* projects and chats the user creates on top of a snapshot with unique ids.
C31_UniqueIds ==
    /\ UniqueProjectIds(projects)
    /\ UniqueChatIds(chats)

\* the chat the sidebar marks as the active one
ActiveChat == FindFirst(chats, LAMBDA c : c.id = activeChatId)

\* C33: whenever an active chat exists, the displayed messages are the
\* messages stored for the chat that activeChatId names, also once the
\* response of a pending turn has arrived after another chat was selected
\* or created.
C33_DisplayIsActiveChat ==
    (activeChatId # NullId /\ ActiveChat.found /\ UniqueChatIds(chats))
        => messages = ActiveChat.value.messages

\* the chat c is in the list cs with at least the messages it has
KeptIn(c, cs) ==
    \E j \in 1..Len(cs) :
        cs[j].id = c.id /\ IsPrefix(c.messages, cs[j].messages)

\* C35: what the user did before the response of the snapshot load arrived
\* is not lost: every chat of the client's list is still in the list, with
\* its messages, when the load has completed.
C35_LocalWorkSurvivesLoad ==
    [][(chatStateFetch = "pending" /\ chatStateFetch' = "done")
       => \A i \in 1..Len(chats) : KeptIn(chats[i], chats')]_vars

\* the chats of cs other than the one with the given id
Without(cs, chatId) == SelectSeq(cs, LAMBDA c : c.id # chatId)

\* the chats of cs filed like the active project (the unfiled ones when no
\* project is active)
InActiveProject(cs) == SelectSeq(cs, LAMBDA c : c.projectId = activeProjectId)

\* the chat a deletion of the active chat makes active
SwitchTarget(rest) ==
    IF Len(InActiveProject(rest)) > 0 THEN InActiveProject(rest)[1].id
    ELSE IF Len(rest) > 0 THEN rest[1].id
    ELSE NullId

\* C34: activeChatId is always null or the id of a chat in the list;
\* deleting the active chat makes the first remaining chat of the active
\* project the active one, else the first remaining chat, else none;
\* deleting another chat leaves the active chat; deleting the project of
\* the active chat makes the first remaining chat the active one, or none.
C34_ActiveChatExists ==
    [][/\ activeChatId' = NullId \/ activeChatId' \in ChatIds(chats')
       /\ \A i \in 1..Len(chats) :
              handleDeleteChat(chats[i].id) =>
                  /\ chats' = Without(chats, chats[i].id)
                  /\ activeChatId' =
                         IF chats[i].id = activeChatId
                         THEN SwitchTarget(Without(chats, chats[i].id))
                         ELSE activeChatId
       /\ \A i \in 1..Len(projects) :
              (/\ handleDeleteProject(projects[i].id)
               /\ ActiveChat.found
               /\ ActiveChat.value.projectId = projects[i].id)
                  => activeChatId' =
                         IF Len(chats') > 0 THEN chats'[1].id
                         ELSE NullId]_vars

\* the active chat, the only unfiled one, was deleted as the session's only
\* operation: the stored chat of the project is the active one and is shown
C34_Witness ==
    /\ chatStateFetch = "done"
    /\ ops = 1
    /\ chats = <<StoredChats[2]>>
    /\ activeChatId = StoredChats[2].id
    /\ activeProjectId = StoredChats[2].projectId
    /\ messages = StoredChats[2].messages
----------------------------------------------------------------------------
(* Properties of the chat-state store (StoreSpec)                          *)

Authorized(request) == requireAuth(request.authorization) = 0

\* projects and chats are both lists
WellFormed(body) ==
    /\ GetProp(body, "projects").t = "arr"
    /\ GetProp(body, "chats").t = "arr"

\* what an authorized caller reads from the table t
Loaded(t) == OverHttp(GetChatState(Bearer(SessionToken), t).body)

\* C7: an authorized save of a well-formed snapshot S succeeds, and an
\* authorized load that directly follows a successful save of S answers
\* { projects: S.projects, chats: S.chats }.
C7_SaveLoadRoundTrip ==
    [][/\ (/\ req'.method = "POST"
           /\ Authorized(req')
           /\ WellFormed(req'.body))
          => res'.status = 200
       /\ (/\ req.method = "POST"
           /\ res.status = 200
           /\ req'.method = "GET"
           /\ Authorized(req'))
          => /\ res'.status = 200
             /\ OverHttp(res'.body) = SnapshotOf(req.body)]_vars

\* a load has answered the snapshot with a project and two chats saved before
C7_Witness ==
    /\ req.method = "GET"
    /\ res.status = 200
    /\ saved = OverHttp(SnapshotToJS(StoredProjects, StoredChats))
    /\ OverHttp(res.body) = saved
    /\ ArrayOfJS(GetProp(OverHttp(res.body), "chats"), ChatOfJS)
           = StoredChats

\* C8: the store holds exactly the snapshot accepted last, whatever was
\* saved before it, and saving the snapshot it holds changes nothing.
C8_LastWriteWins ==
    [][/\ saved' # NoSave => Loaded(table') = saved'
       /\ (/\ req'.method = "POST"
           /\ res'.status = 200
           /\ saved # NoSave
           /\ SnapshotOf(req'.body) = saved)
          => table' = table]_vars

\* two different snapshots were saved, the smaller one last: nothing of the
\* first is left
C8_Witness ==
    /\ req.method = "POST"
    /\ res.status = 200
    /\ saved = OverHttp(SnapshotToJS(StoredProjects, << >>))
    /\ Loaded(table) = saved
    /\ Cardinality(table) = 1

\* C9: a load changes nothing in the store, and an authorized load before
\* the first save answers { projects: [], chats: [] } and creates no row.
C9_LoadReadsOnly ==
    [][req'.method = "GET"
       => /\ table' = table
          /\ saved' = saved
          /\ (Authorized(req') /\ saved = NoSave)
             => /\ res'.status = 200
                /\ res'.body = EmptySnapshot
                /\ table' = {}]_vars

\* an authorized load was answered before anything was saved
C9_Witness ==
    /\ req.method = "GET"
    /\ Authorized(req)
    /\ res.status = 200
    /\ res.body = EmptySnapshot
    /\ saved = NoSave
    /\ table = {}


\* body has no projects or no chats: the key is missing or its value is
\* null
Lacks(body, key) == GetProp(body, key).t \in {"undefined", "null"}
LacksPart(body) == Lacks(body, "projects") \/ Lacks(body, "chats")

\* C37: an authorized save whose body lacks projects or lacks chats is
\* answered 400 and leaves the store as it was; a load that follows it
\* answers the snapshot saved before, the empty one if there was none.
C37_IncompleteSaveRejected ==
    [][/\ (/\ req'.method = "POST"
           /\ Authorized(req')
           /\ LacksPart(req'.body))
          => /\ res'.status = 400
             /\ table' = table
             /\ saved' = saved
             /\ Loaded(table') = Loaded(table)
       /\ (/\ req.method = "POST"
           /\ Authorized(req)
           /\ LacksPart(req.body)
           /\ req'.method = "GET"
           /\ Authorized(req'))
          => /\ res'.status = 200
             /\ OverHttp(res'.body)
                    = IF saved = NoSave THEN EmptySnapshot ELSE saved]_vars

\* a save without chats was refused after a snapshot had been saved: the
\* store still answers that snapshot
C37_Witness ==
    /\ req.method = "POST"
    /\ Authorized(req)
    /\ Lacks(req.body, "chats")
    /\ ~Lacks(req.body, "projects")
    /\ res.status = 400
    /\ saved = OverHttp(SnapshotToJS(StoredProjects, StoredChats))
    /\ Loaded(table) = saved
----------------------------------------------------------------------------
(* Properties of a turn's route (RouteSpec)                                *)

\* the turn in flight asks how many days until Christmas and the backend has
\* responded to it
ChristmasTurnAnswered ==
    /\ Len(inflight) = 1
    /\ req # NoRequest
    /\ res # NoResponse
    /\ IsChristmasQuestion(
           toLowerCase(TextOfJS(GetProp(inflight[1].body, "prompt"))))

\* C10: in every mode, a turn whose lowercased prompt contains both "how
\* many days" and "christmas" is answered with the day-count string computed
\* from the date the client sent, and no upstream call is made for it.
C10_ChristmasBeforeModeRouting ==
    ChristmasTurnAnswered =>
        /\ upstream = << >>
        /\ res.status = 200
        /\ GetProp(res.body, "reply") =
               JStr(ChristmasReply(
                        toLowerCase(TextOfJS(GetProp(req.body, "prompt"))),
                        DateOf(GetProp(req.body, "clientDate")), timeZone))

\* in the chat mode the override answers the question without upstream call
C10_ChatModeWitness ==
    /\ ChristmasTurnAnswered
    /\ req.url = "/api/ai"
    /\ upstream = << >>
    /\ res.status = 200


\* an image-capable model is in the list the model select offers
ImageModelSelectable ==
    \E i \in 1..Len(models) : models[i].isImageCapable

C20_NoAutomaticRetry ==
    [][/\ Len(upstream') <= 1
       /\ IsSubmit => (ops' = ops + 1 /\ Len(inflight) = 0)
       /\ (req' # req /\ req' # NoRequest) =>
              /\ req = NoRequest
              /\ Len(inflight) = 1
              /\ req'.url = inflight[1].url
              /\ inflight' = inflight
       /\ (req # NoRequest /\ res = NoResponse /\ res' # NoResponse) =>
              /\ upstream' = upstream
              /\ req' = req
       /\ (req # NoRequest /\ req' = NoRequest) =>
              /\ inflight' = << >>
              /\ ~isSending'
              /\ Len(messages') = Len(inflight[1].newMessages) + 1]_vars

\* a turn has ended with an error message after the one upstream call of
\* its handler failed; nothing is in flight and the session is still open
C20_Witness ==
    /\ inflight = << >>
    /\ req = NoRequest
    /\ ~isSending
    /\ Len(upstream) = 1
    /\ Len(messages) = 3
    /\ messages[3].role = "assistant"
    /\ messages[3].text # ModelReplyText
    /\ token # Null

\* the image of the first choice's message, in the shape named by key
ImageUrlIn(outcome, key) ==
    GetProp(GetProp(FirstOf(GetProp(GetProp(FirstOf(GetProp(outcome.data,
                                                            "choices")),
                                            "message"),
                                    "images")),
                    key),
            "url")

\* the provider answered the call with success but with no image URL
LacksImageUrl(outcome) ==
    /\ ~outcome.failed
    /\ ResponseOk(outcome)
    /\ IsFalsy(ImageUrlIn(outcome, "image_url"))
    /\ IsFalsy(ImageUrlIn(outcome, "imageUrl"))

\* C23: when the provider's answer to an image turn carries no image URL in
\* either shape the backend answers 500 with an error; the backend answers
\* an image turn with success only with an image URL; and the message the
\* client appends for an image turn is the assistant message with that URL
\* after a success and an error message without imageUrl otherwise.
C23_ImageFailure ==
    [][/\ \A outcome \in UpstreamOutcomes("/api/image") :
              (req.url = "/api/image" /\ UpstreamDone(outcome)) =>
                  IF LacksImageUrl(outcome)
                  THEN /\ res'.status = 500
                       /\ GetProp(res'.body, "error") = JStr(NoImageText)
                  ELSE res'.status = 200 =>
                           ~IsFalsy(GetProp(res'.body, "imageUrl"))
       /\ (req.url = "/api/image" /\ req' = NoRequest) =>
              LET reply == messages'[Len(messages')]
              IN  /\ Len(messages') = Len(inflight[1].newMessages) + 1
                  /\ reply.role = "assistant"
                  /\ IF res.status = 200
                     THEN /\ reply.imageUrl \notin {Null, Undefined}
                          /\ JWord(reply.imageUrl)
                                 = GetProp(res.body, "imageUrl")
                     ELSE /\ reply.imageUrl = Undefined
                          /\ reply.text
                                 = TextOfJS(GetProp(res.body, "error"))]_vars

\* an image turn has ended with the error message of a provider's answer
\* that carried no image
C23_Witness ==
    /\ activeMode = "Image Prompts"
    /\ inflight = << >>
    /\ req = NoRequest
    /\ Len(upstream) = 1
    /\ Len(messages) = 3
    /\ messages[3].text = NoImageText
    /\ messages[3].imageUrl = Undefined
----------------------------------------------------------------------------
(* Properties of the turn routes (AiSpec)                                  *)

\* the run of digits of s that starts at place i
DigitsFrom(s, i) ==
    LET stops == {j \in i..(Len(s) + 1) : j = Len(s) + 1 \/ ~IsDigit(s[j])}
    IN  SubSeq(s, i, Min(stops) - 1)

\* the day count, the year and the date a reply of the date special case
\* states, read off its text
SaidDaysText(reply) == DigitsFrom(reply, Len(ThereAre) + 1)
SaidYearText(reply) ==
    DigitsFrom(reply,
               Len(ThereAre) + Len(SaidDaysText(reply)) + Len(DaysUntil) + 1)
SaidDays(reply) == NumberOf(SaidDaysText(reply))
SaidYear(reply) == NumberOf(SaidYearText(reply))
SaidDate(reply) ==
    LET start == Len(ThereAre) + Len(SaidDaysText(reply)) + Len(DaysUntil)
                 + Len(SaidYearText(reply)) + Len(BasedOn) + 1
    IN  SubSeq(reply, start, start + 9)
StatesCountYearDate(reply) ==
    /\ SaidDaysText(reply) # << >>
    /\ Len(SaidYearText(reply)) = 4
    /\ reply = ThereAre \o SaidDaysText(reply) \o DaysUntil
               \o SaidYearText(reply) \o BasedOn \o SaidDate(reply)
               \o <<")">>

\* the year a prompt names, 0 if it names none
NamedYear(text) ==
    IF text = Christmas2026Prompt THEN 2026
    ELSE IF text = Christmas2020Prompt THEN 2020
    ELSE 0

PromptOf(request) == GetProp(request.body, "prompt")
ClientDateOf(request) == GetProp(request.body, "clientDate")
ReplyOf(response) == TextOfJS(GetProp(response.body, "reply"))

\* request went to the text route and asks the date question
IsDateTurn(request) ==
    /\ request.url = "/api/ai"
    /\ PromptOf(request).t = "str"
    /\ PromptOf(request).v \in {NextChristmasPrompt, Christmas2026Prompt,
                                Christmas2020Prompt}

\* the timestamps that may be the effective one of a request whose
\* clientDate is a date or is absent
EffectiveTimes(request) ==
    IF ClientDateOf(request).t = "iso"
    THEN {DateOf(ClientDateOf(request))}
    ELSE Clock

\* the backend has answered the date question, sent with a date or none
DateTurnAnswered ==
    /\ IsDateTurn(req)
    /\ ClientDateOf(req).t \in {"iso", "undefined"}
    /\ res # NoResponse

PlusDays(date, k) == [day |-> date.day + k, ms |-> date.ms]

\* C11: the target year of the date special case is the four-digit year
\* beginning with "20" that the prompt contains, if it contains one;
\* otherwise it is the year of the effective timestamp in the backend's
\* calendar, advanced by one exactly if Dec 25 of that year is before the
\* effective timestamp.  "how many days until christmas" at 2025-12-26 has
\* target year 2026, and so has "How many days until christmas 2026?" at
\* 2025-01-01.
C11_TargetYear ==
    DateTurnAnswered =>
        /\ res.status = 200
        /\ StatesCountYearDate(ReplyOf(res))
        /\ \E now \in EffectiveTimes(req) :
               LET year == getFullYear(now, timeZone)
                   said == SaidYear(ReplyOf(res))
                   named == NamedYear(PromptOf(req).v)
               IN  /\ SaidDate(ReplyOf(res)) = IsoDay(toISOString(now))
                   /\ IF named # 0 THEN said = named
                      ELSE IF Before(ChristmasOf(year, timeZone), now)
                      THEN said = year + 1
                      ELSE said = year
        /\ (/\ PromptOf(req).v = NextChristmasPrompt
            /\ ClientDateOf(req) = IsoAt(2025, 12, 26, 0, 0))
               => SaidYear(ReplyOf(res)) = 2026
        /\ (/\ PromptOf(req).v = Christmas2026Prompt
            /\ ClientDateOf(req) = IsoAt(2025, 1, 1, 0, 0))
               => SaidYear(ReplyOf(res)) = 2026

\* the question without a year, asked on 2025-12-26, was answered for 2026
C11_Witness ==
    /\ DateTurnAnswered
    /\ PromptOf(req).v = NextChristmasPrompt
    /\ ClientDateOf(req) = IsoAt(2025, 12, 26, 0, 0)
    /\ SaidYear(ReplyOf(res)) = 2026

\* C12: the day count of the date special case is max(0, ceil((Dec 25 of
\* the target year - effective timestamp) / 86400000)): it is never
\* negative, it is 0 when the prompt names a year whose Dec 25 is past, and
\* "How many days until christmas 2026?" at 2025-01-01 is answered with the
\* number of days from 2025-01-01 to 2026-12-25 and the year 2026.
C12_DayCount ==
    DateTurnAnswered =>
        /\ res.status = 200
        /\ StatesCountYearDate(ReplyOf(res))
        /\ \E now \in EffectiveTimes(req) :
               LET target == ChristmasOf(SaidYear(ReplyOf(res)), timeZone)
                   days == SaidDays(ReplyOf(res))
               IN  /\ SaidDate(ReplyOf(res)) = IsoDay(toISOString(now))
                   /\ days >= 0
                   /\ days = 0 => ~Before(now, target)
                   /\ days > 0 =>
                          /\ Before(PlusDays(now, days - 1), target)
                          /\ ~Before(PlusDays(now, days), target)
        /\ PromptOf(req).v = Christmas2020Prompt
               => SaidDays(ReplyOf(res)) = 0
        /\ (/\ PromptOf(req).v = Christmas2026Prompt
            /\ ClientDateOf(req) = IsoAt(2025, 1, 1, 0, 0))
               => /\ SaidYear(ReplyOf(res)) = 2026
                  /\ SaidDays(ReplyOf(res)) =
                         DaysFromCivil(2026, 12, 25)
                         - DaysFromCivil(2025, 1, 1)

\* request asks the date question and carries a date, and response answers
\* it
DatedTurn(request, response) ==
    /\ IsDateTurn(request)
    /\ ClientDateOf(request).t = "iso"
    /\ response # NoResponse

\* C13: two invocations of the date special case with the same prompt and
\* the same clientDate get the same reply, whatever the backend's clock
\* reads at each and whatever brand, mode and modelId they carry; the reply
\* states the day count, the target year and the first ten characters of
\* the ISO string of the effective timestamp.
C13_SameDateSameReply ==
    [][/\ (/\ DatedTurn(req, res)
           /\ DatedTurn(req', res')
           /\ PromptOf(req') = PromptOf(req)
           /\ ClientDateOf(req') = ClientDateOf(req))
              => res' = res
       /\ DatedTurn(req', res') =>
              /\ ReplyOf(res') # UndefinedText
              /\ StatesCountYearDate(ReplyOf(res'))
              /\ SaidDate(ReplyOf(res')) = IsoDay(ClientDateOf(req').v)]_vars

\* the question was asked again with the same date under another brand and
\* mode and without a model, and answered
C13_Witness ==
    /\ DatedTurn(req, res)
    /\ PromptOf(req).v = NextChristmasPrompt
    /\ ClientDateOf(req) = IsoAt(2026, 12, 24, 23, 0)
    /\ GetProp(req.body, "brand") = JWord(BRANDS[2])
    /\ GetProp(req.body, "modelId") = JUndef
    /\ StatesCountYearDate(ReplyOf(res))

\* the ISO timestamp the text route wrote into the system prompt of its
\* upstream call
IsoNowOf(call) ==
    GetProp(GetProp(FirstOf(GetProp(call, "messages")), "content"),
            "isoNow")

\* C14: the text route takes clientDate as the effective timestamp when it
\* is supplied and parseable, and otherwise, clientDate being absent or no
\* date, its own clock; a clientDate that is no date never makes the turn
\* fail.
C14_EffectiveTimestamp ==
    (/\ req.url = "/api/ai"
     /\ PromptOf(req).t = "str"
     /\ Trim(PromptOf(req).v) # << >>)
        => \E now \in EffectiveTimes(req) :
               IF IsDateTurn(req)
               THEN /\ res.status = 200
                    /\ SaidDate(ReplyOf(res)) = IsoDay(toISOString(now))
               ELSE /\ Len(upstream) = 1
                    /\ IsoNowOf(upstream[1]) = JIso(toISOString(now))
                    /\ res # NoResponse => res.status # 400

----------------------------------------------------------------------------
(* Properties of the message box and the routes (InputSpec)                *)

\* a prompt that is missing, empty or all whitespace
IsBlankPrompt(prompt) ==
    \/ prompt.t \in {"undefined", "null"}
    \/ prompt.t = "str" /\ Trim(prompt.v) = << >>

\* the backend has received a turn with a blank prompt
BlankTurnReceived ==
    /\ req.url \in {"/api/ai", "/api/image"}
    /\ IsBlankPrompt(PromptOf(req))

\* C15: an empty or whitespace-only prompt makes no turn.  The client sends
\* no request for it and appends no message: every request in flight and
\* every user message carries a prompt that is not blank.  The text and
\* image routes answer a blank prompt with 400 and an error, and make no
\* upstream call for it.
C15_BlankPromptRejected ==
    /\ \A i \in 1..Len(inflight) :
           ~IsBlankPrompt(GetProp(inflight[i].body, "prompt"))
    /\ \A i \in 1..Len(messages) :
           messages[i].role = "user" => Trim(messages[i].text) # << >>
    /\ \A i \in 1..Len(chats) :
           \A j \in 1..Len(chats[i].messages) :
               chats[i].messages[j].role = "user"
                   => Trim(chats[i].messages[j].text) # << >>
    /\ BlankTurnReceived =>
           /\ res.status = 400
           /\ ~IsFalsy(GetProp(res.body, "error"))
           /\ upstream = << >>

\* the image route has turned a whitespace-only prompt away while a turn
\* typed into the message box is in flight
C15_Witness ==
    /\ BlankTurnReceived
    /\ req.url = "/api/image"
    /\ PromptOf(req) = JStr(<<" ", " ">>)
    /\ res.status = 400
    /\ Len(inflight) = 1

----------------------------------------------------------------------------
(* Properties of the model selection (ModeSpec)                            *)

\* the ids of the models of mods that mode asks for, in the order of mods
ModeList(mode, mods) ==
    LET kept == SelectSeq(mods,
                          LAMBDA m : CASE mode = "Image Prompts"
                                              -> m.isImageCapable
                                       [] mode = "Video Prompts"
                                              -> m.isVideoCapable
                                       [] OTHER -> TRUE)
    IN  [i \in 1..Len(kept) |-> kept[i].id]

InList(id, list) == \E i \in 1..Len(list) : list[i] = id

\* C17: when a mode change or a load of the model list has been processed
\* and the list of the active mode is not empty, the selected model is in
\* that list: it is the first entry if the model selected before was not in
\* the list, and the model selected before if it was.
C17_SelectionInList ==
    [][(activeMode' # activeMode \/ models' # models) =>
           LET list == ModeList(activeMode', models')
           IN  Len(list) > 0 =>
                   /\ InList(selectedModel', list)
                   /\ IF InList(selectedModel, list)
                      THEN selectedModel' = selectedModel
                      ELSE selectedModel' = list[1]]_vars

\* the second image model was picked in the image mode and has stayed the
\* selection through a change to the first mode
C17_Witness ==
    /\ activeMode = MODES[1]
    /\ selectedModel = ImageModel2.id
    /\ ops = 3

\* C18: when the list of the active mode is empty no model is selected and
\* the notice "No models available for this mode." is shown; the selected
\* model is never one that is not in the list of the active mode.
C18_NoSelectionOnEmptyList ==
    /\ (modelsFetch = "done" /\ modelError = NullText
        /\ Len(ModeList(activeMode, models)) = 0)
           => /\ selectedModel = Null
              /\ NoModelsNotice
    /\ selectedModel # Null
           => InList(selectedModel, ModeList(activeMode, models))

----------------------------------------------------------------------------
(* Properties of the model catalog (CatalogSpec)                           *)

\* the provider has answered with a list
HasRawList ==
    /\ ~listing.failed
    /\ ResponseOk(listing)
    /\ GetProp(listing.data, "data").t = "arr"

\* the provider's list, empty when it answered with none
RawList == IF HasRawList THEN GetProp(listing.data, "data").v ELSE << >>

\* the backend has answered the listing request url with a model list
Listed(url) ==
    /\ req.method = "GET"
    /\ req.url = url
    /\ res # NoResponse
    /\ res.status = 200

\* the model list of the response, as the caller reads it
ListedModels == GetProp(OverHttp(res.body), "models").v

\* fetchModels has stored the model list of a response
Fetched ==
    /\ modelsFetch = "done"
    /\ modelError = NullText
    /\ token # Null

IsPaid(d) == ~GetProp(d, "isFree").v
PriceIn(d) == GetProp(GetProp(d, "pricing"), "prompt").v
HasTag(list, tag) ==
    list.t = "arr" /\ \E i \in 1..Len(list.v) : list.v[i] = JWord(tag)
PutsOutImage(d) == HasTag(GetProp(d, "outputModalities"), "image")
HandlesVideo(d) ==
    HasTag(GetProp(d, "outputModalities"), "video")
    \/ HasTag(GetProp(d, "inputModalities"), "video")

\* a list of descriptors as a caller reads it from a response
AsRead(list) ==
    GetProp(OverHttp(JObj(<<<<"models", JArr(list)>>>>)), "models").v

\* the descriptors of the provider's list in the provider's order, those
\* of the video listing being the ones that handle video
Described(url) ==
    LET all == AsRead([i \in 1..Len(RawList) |-> Normalize(RawList[i])])
    IN  IF url = "/api/video-models" THEN SelectSeq(all, HandlesVideo)
        ELSE all

\* the entries of list that compare equal to d, in the order of list
EqualTo(d, list) ==
    SelectSeq(list,
              LAMBDA e : IsPaid(e) = IsPaid(d) /\ PriceIn(e) = PriceIn(d))

\* list is in ranking order: no paid entry before a free one and, among the
\* free and among the paid, prompt prices that do not decrease
InRankingOrder(list) ==
    \A i, j \in 1..Len(list) :
        i < j => /\ ~(IsPaid(list[i]) /\ ~IsPaid(list[j]))
                 /\ IsPaid(list[i]) = IsPaid(list[j])
                        => PriceIn(list[i]) <= PriceIn(list[j])

\* C25: a model list the backend answers with is in ranking order (no paid
\* descriptor before a free one, prompt prices non-decreasing among the free
\* and among the paid), descriptors that compare equal keep the order of the
\* provider's list, and ranking the answer again yields the same sequence.
C25_RankingOrder ==
    \A url \in ListingUrls :
        Listed(url) =>
            /\ Len(ListedModels) = Len(Described(url))
            /\ InRankingOrder(ListedModels)
            /\ \A i \in 1..Len(ListedModels) :
                   EqualTo(ListedModels[i], ListedModels)
                       = EqualTo(ListedModels[i], Described(url))
            /\ SortModels(ListedModels) = ListedModels

\* a paid model of prompt price 0, two paid models of prompt price 2 and a
\* free model were listed in this order and have been ranked
C25_Witness ==
    /\ Listed("/api/models")
    /\ RawList = <<RawVideoIn, RawImage, RawText>>
    /\ GetProp(ListedModels[1], "id") = JWord("m-text")
    /\ GetProp(ListedModels[2], "id") = JWord("m-video-in")

\* the capability a mode asks for
KeptBy(mode, d) ==
    CASE mode = "Image Prompts" -> GetProp(d, "isImageCapable").v
      [] mode = "Video Prompts" -> GetProp(d, "isVideoCapable").v
      [] OTHER -> TRUE

\* rank(filterByCapability(all, capability of mode)) as the client reads it
RankedFiltered(mode) ==
    ModelsOfBody(
        JObj(<<<<"models",
                 JArr(SortModels(
                          SelectSeq(Described("/api/models"),
                                    LAMBDA d : KeptBy(mode, d))))>>>>))

\* C26: the video listing is the ranked list of the video-capable
\* descriptors and equals the video-capable entries of the full ranked list;
\* the list the client offers for a mode, filtered from the ranked list it
\* fetched, is the ranked list of the descriptors the mode asks for.
C26_FilterThenRank ==
    /\ Listed("/api/video-models") =>
           /\ ListedModels
                  = SortModels(SelectSeq(Described("/api/models"),
                                         HandlesVideo))
           /\ ListedModels
                  = SelectSeq(SortModels(Described("/api/models")),
                              HandlesVideo)
    /\ Fetched =>
           \A i \in 1..Len(MODES) :
               FilteredModels(MODES[i], models) = RankedFiltered(MODES[i])

\* the client has fetched three models of which two, listed dearer first,
\* handle video and one puts out images
C26_Witness ==
    /\ Fetched
    /\ RawList = <<RawVideoIn, RawVideoOut, RawImage>>
    /\ Len(FilteredModels("Video Prompts", models)) = 2
    /\ FilteredModels("Video Prompts", models)[1].id = "m-video"
    /\ Len(FilteredModels("Image Prompts", models)) = 1

\* the entries of the client's list whose descriptor, at the same place of
\* the ranked list, satisfies the test of the capability
Matching(capability) ==
    LET ranked == SortModels(Described("/api/models"))
        places == SelectSeq([i \in 1..Len(models) |-> i],
                            LAMBDA i :
                                CASE capability = "image"
                                         -> PutsOutImage(ranked[i])
                                  [] capability = "video"
                                         -> HandlesVideo(ranked[i])
                                  [] OTHER -> TRUE)
    IN  [k \in 1..Len(places) |-> models[places[k]]]

\* C27: the list kept for the image mode holds exactly the fetched models
\* whose outputModalities contain image, the list kept for the video mode
\* and the video listing exactly those with video in outputModalities or
\* inputModalities, the list of the other modes is the whole list; a kept
\* model is the fetched one, unchanged.
C27_CapabilityFilter ==
    /\ Fetched =>
           /\ Len(models) = Len(Described("/api/models"))
           /\ FilteredModels("Image Prompts", models) = Matching("image")
           /\ FilteredModels("Video Prompts", models) = Matching("video")
           /\ FilteredModels("Chat / Brain", models) = models
           /\ FilteredModels("Campaign Builder", models) = models
    /\ Listed("/api/video-models") =>
           /\ \A i \in 1..Len(ListedModels) : HandlesVideo(ListedModels[i])
           /\ Len(ListedModels)
                  = Len(SelectSeq(Described("/api/models"), HandlesVideo))

\* the client has fetched a model that takes video in, one that puts out
\* images and one that does neither
C27_Witness ==
    /\ Fetched
    /\ RawList = <<RawText, RawImage, RawVideoIn>>
    /\ Len(FilteredModels("Image Prompts", models)) = 1
    /\ FilteredModels("Video Prompts", models)[1].id = "m-video-in"

\* record[key] is there (not missing, null or empty)
Present(record, key) == ~IsFalsy(GetProp(record, key))

\* the modality list the descriptor of raw should carry for key
DefaultedModalities(raw, key) ==
    IF Present(raw, "architecture")
       /\ Present(GetProp(raw, "architecture"), key)
    THEN GetProp(GetProp(raw, "architecture"), key)
    ELSE IF Present(raw, key) THEN GetProp(raw, key)
    ELSE JArr(<< >>)

\* descriptor d carries the defaults for what raw lacks
Defaulted(raw, d) ==
    LET pricing == GetProp(raw, "pricing")
    IN  /\ ~Present(pricing, "prompt")
               => GetProp(GetProp(d, "pricing"), "prompt") = JNum(0)
        /\ ~Present(pricing, "completion")
               => GetProp(GetProp(d, "pricing"), "completion") = JNum(0)
        /\ (~Present(pricing, "prompt") /\ ~Present(pricing, "completion"))
               => GetProp(d, "isFree") = JBool(TRUE)
        /\ GetProp(d, "outputModalities")
               = DefaultedModalities(raw, "output_modalities")
        /\ GetProp(d, "inputModalities")
               = DefaultedModalities(raw, "input_modalities")
        /\ GetProp(d, "outputModalities") = JArr(<< >>)
               => GetProp(d, "isImageCapable") = JBool(FALSE)
        /\ (GetProp(d, "outputModalities") = JArr(<< >>)
            /\ GetProp(d, "inputModalities") = JArr(<< >>))
               => GetProp(d, "isVideoCapable") = JBool(FALSE)

\* C28: when the provider's list holds records only, the listing request is
\* answered with a model list (the normalizer does not throw), and every
\* descriptor in it has price 0 for a missing price (isFree when both are
\* missing), each modality list from architecture if present there, else
\* from the top-level field, else empty, and is not image or video capable
\* when its lists are empty.
C28_NormalizerDefaults ==
    (/\ req.url = "/api/models"
     /\ res # NoResponse
     /\ HasRawList
     /\ \A i \in 1..Len(RawList) : RawList[i].t = "obj")
        => /\ Listed("/api/models")
           /\ \A i \in 1..Len(RawList) :
                  /\ \E j \in 1..Len(ListedModels) :
                         GetProp(ListedModels[j], "id")
                             = GetProp(RawList[i], "id")
                  /\ \A j \in 1..Len(ListedModels) :
                         GetProp(ListedModels[j], "id")
                             = GetProp(RawList[i], "id")
                             => Defaulted(RawList[i], ListedModels[j])

\* a record with an id only, one with null pricing and architecture and one
\* with top-level modalities only have been listed
C28_Witness ==
    /\ Listed("/api/models")
    /\ RawList = <<RawBare, RawNulls, RawVideoOut>>
    /\ Len(ListedModels) = 3

\* the records of the provider's list, the entries that are none left out
RecordsOnly == SelectSeq(RawList, LAMBDA m : m.t = "obj")

\* C29: when the provider's list holds an entry that is no record (null),
\* the listing request is still answered with a model list, and the list is
\* the ranked list of the descriptors of the remaining records.
C29_MalformedRecordDropped ==
    (/\ req.url = "/api/models"
     /\ res # NoResponse
     /\ HasRawList)
        => /\ Listed("/api/models")
           /\ ListedModels
                  = SortModels(AsRead([i \in 1..Len(RecordsOnly) |->
                                           Normalize(RecordsOnly[i])]))
----------------------------------------------------------------------------
(* Properties of the session: credential, failed loads, video turns (Spec) *)

\* the client holds no credential
CredentialDiscarded == token = Null /\ localStore.authToken = Null

\* C22: when a turn (text, image or video) or the snapshot load is answered
\* 401 the client discards its credential: the token becomes null and is
\* removed from local storage; and without a token no turn is submitted.
C22_CredentialDiscardedOn401 ==
    [][/\ \A i \in 1..Len(inflight) :
              \A outcome \in TurnOutcomes(inflight[i].url) :
                  (outcome.status = 401 /\ SettleTurn(i, outcome))
                      => CredentialDiscarded'
       /\ \A outcome \in LoadOutcomes, read1 \in Readings :
              \A read2 \in ReadingsAfter(read1) :
                  (outcome.status = 401
                   /\ LoadChatStateDone(outcome, read1[1], read1[2],
                                        read2[1], read2[2]))
                      => CredentialDiscarded'
       /\ IsSubmit => token # Null]_vars

\* msgs holds a video message without a video URL
HoldsEmptyVideo(msgs) ==
    \E k \in 1..Len(msgs) :
        msgs[k].type = "video" /\ msgs[k].videoUrl \in {Null, Undefined}

\* C24: no chat and no displayed message list holds a video-typed assistant
\* message whose videoUrl is null: a video turn whose response carries no
\* video URL ends with an error message.
C24_VideoFailure ==
    /\ ~HoldsEmptyVideo(messages)
    /\ \A j \in 1..Len(chats) : ~HoldsEmptyVideo(chats[j].messages)

\* the snapshot load has failed: the fetch failed or the response was no
\* success
LoadFailed(outcome) == outcome.failed \/ ~ResponseOk(outcome)

\* C30: when the snapshot load fails the client holds the default snapshot
\* (one project "General", one unfiled chat "New chat" holding the welcome
\* message, which is the active chat), nothing of the backend and nothing
\* that decides whether a turn can be submitted (the token, the send
\* button) is changed.
C30_LoadFailureFallsBack ==
    [][\A outcome \in LoadOutcomes, read1 \in Readings :
           \A read2 \in ReadingsAfter(read1) :
               (LoadFailed(outcome)
                /\ LoadChatStateDone(outcome, read1[1], read1[2],
                                     read2[1], read2[2]))
                   => /\ Len(projects') = 1
                      /\ projects'[1].name = GeneralName
                      /\ Len(chats') = 1
                      /\ chats'[1].projectId = NullId
                      /\ chats'[1].title = NewChatTitle
                      /\ chats'[1].messages = INITIAL_MESSAGES
                      /\ activeChatId' = chats'[1].id
                      /\ activeProjectId' = NullId
                      /\ messages' = INITIAL_MESSAGES
                      /\ token' = token
                      /\ \A input \in Inputs :
                             disableSend(input)' = disableSend(input)
                      /\ table' = table
                      /\ saved' = saved]_vars

\* the load failed although the backend holds a snapshot, and a turn has
\* been submitted in the default chat since
C30_Witness ==
    /\ table # {}
    /\ chatStateFetch = "done"
    /\ Len(projects) = 1
    /\ projects[1].name = GeneralName
    /\ Len(inflight) = 1
    /\ inflight[1].activeChatId = chats[1].id
    /\ Len(chats[1].messages) = 2

\* C36: the pending flag is always released: whenever isSending is true it
\* becomes false again, given that the request of every turn settles (with
\* a response, an error or a timeout), on every path: success, upstream
\* error, and 401 with logout.
C36_PendingReleased == isSending ~> ~isSending

\* a turn answered 401 has logged the session out and released the flag
C36_Witness ==
    /\ token = Null
    /\ ~isSending
    /\ Len(inflight) = 0
    /\ Len(messages) >= 3
    /\ messages[Len(messages)] = TextMessage(UnauthorizedText)
    /\ messages[Len(messages) - 1].role = "user"
----------------------------------------------------------------------------
(* Properties of the session gate (GateSpec)                               *)

\* the request carries a bearer token that verifies
CarriesValidToken(request) ==
    /\ request.authorization.scheme = "Bearer "
    /\ request.authorization.token \in ValidTokens

\* C21: a request to a listing route, a chat-state route or a turn route
\* that carries no bearer token that verifies is answered 401, and with it
\* no call to the provider is made and neither the table nor the saved
\* snapshot changes; a call to the provider and a change of the table
\* happen under a verified request only; and /api/login answers with a
\* token only when the password posted is the configured one.
C21_SessionGate ==
    [][/\ (req' # req /\ req'.url # "/api/login"
           /\ ~CarriesValidToken(req'))
              => /\ res'.status = 401
                 /\ upstream' \in {upstream, << >>}
                 /\ table' = table
                 /\ saved' = saved
       /\ (upstream' # upstream /\ upstream' # << >>)
              => CarriesValidToken(req')
       /\ (table' # table \/ saved' # saved)
              => (CarriesValidToken(req') /\ req'.url = "/api/chat-state")
       /\ (req'.url = "/api/login"
           /\ GetProp(res'.body, "token") # JUndef)
              => /\ GetProp(req'.body, "password") = ADMIN_PASSWORD
                 /\ res'.status = 200]_vars

\* a snapshot has been saved, and a later save with a forged token was
\* answered 401
C21_Witness ==
    /\ table # {}
    /\ req.method = "POST"
    /\ req.url = "/api/chat-state"
    /\ req.authorization = Bearer("forged")
    /\ res.status = 401
----------------------------------------------------------------------------
(* Properties of the chat titles (TitleSpec)                               *)

Ellipsis == <<".", ".", ".">>

\* the trimmed text of the first user message of msgs, empty if there is
\* none or it has no text
FirstUserText(msgs) ==
    LET users == {k \in 1..Len(msgs) : msgs[k].role = "user"}
    IN  IF users = {} THEN << >>
        ELSE IF msgs[Min(users)].text = UndefinedText THEN << >>
        ELSE Trim(msgs[Min(users)].text)

\* title is the title the first user message of msgs gives
DerivedTitle(title, msgs) ==
    LET text == FirstUserText(msgs)
    IN  /\ Len(title) <= TitleMax
        /\ text = << >> => title = NewChatTitle
        /\ (text # << >> /\ Len(text) <= TitleMax) => title = text
        /\ Len(text) > TitleMax =>
               /\ Len(title) = TitleMax
               /\ IsPrefix(SubSeq(title, 1, TitleMax - Len(Ellipsis)), text)
               /\ SubSeq(title, TitleMax - Len(Ellipsis) + 1, TitleMax)
                      = Ellipsis

\* C32: the title of every chat, so after every update of its messages, is
\* derived from its first user message, trimmed: at most 40 characters, the
\* trimmed text itself up to 40 characters, its beginning ended by an
\* ellipsis beyond, and "New chat" when no user message has text.
C32_ChatTitle ==
    \A j \in 1..Len(chats) : DerivedTitle(chats[j].title, chats[j].messages)

\* a turn whose prompt has 41 characters between white space has completed
\* in a chat that held the welcome message only: the title is cut
C32_Witness ==
    /\ Len(inflight) = 0
    /\ \E j \in 1..Len(chats) :
           /\ Len(chats[j].messages) = 3
           /\ chats[j].messages[2].text = Typed(TitleMax + 1)
           /\ chats[j].title = SubSeq(Typed(TitleMax), 1, 37) \o Ellipsis
----------------------------------------------------------------------------
(* Properties of the day count (CountSpec)                                 *)

\* date falls on Dec 25 in the calendar of the zone
OnChristmasDay(date, zone) ==
    /\ toLocaleString(date, zone).month = 12
    /\ toLocaleString(date, zone).day = 25

\* the backend has answered the date question, which names no year
YearlessTurnAnswered ==
    /\ req.url = "/api/ai"
    /\ PromptOf(req).t = "str"
    /\ PromptOf(req).v \in YearlessPrompts
    /\ ClientDateOf(req).t \in {"iso", "undefined"}
    /\ res # NoResponse

\* C38: when the prompt of the date special case names no year the day
\* count is between 0 and 366 for every effective timestamp; it is 0 only
\* when the effective timestamp is exactly the start of Dec 25 (in the
\* backend's calendar), and at any later moment of Dec 25 the target is Dec
\* 25 of the next year.
C38_DayCountRange ==
    YearlessTurnAnswered =>
        /\ res.status = 200
        /\ StatesCountYearDate(ReplyOf(res))
        /\ \E now \in EffectiveTimes(req) :
               LET year == getFullYear(now, timeZone)
                   start == ChristmasOf(year, timeZone)
                   days == SaidDays(ReplyOf(res))
               IN  /\ SaidDate(ReplyOf(res)) = IsoDay(toISOString(now))
                   /\ days >= 0
                   /\ days <= 366
                   /\ days = 0 => now = start
                   /\ (OnChristmasDay(now, timeZone) /\ now # start)
                          => /\ SaidYear(ReplyOf(res)) = year + 1
                             /\ days > 0

\* the question was asked one millisecond after Dec 25 of 2027 began in the
\* backend's zone west of UTC: 366 days until Christmas 2028
C38_Witness ==
    /\ YearlessTurnAnswered
    /\ timeZone = 0 - 300
    /\ ClientDateOf(req) = IsoAtMilli(2027, 12, 25, 5, 0, 1)
    /\ SaidDays(ReplyOf(res)) = 366
    /\ SaidYear(ReplyOf(res)) = 2028
=============================================================================
